---- MODULE Spec2Model ----
(***************************************************************************)
(* State-machine model of the FreelanceEscrow settlement engine            *)
(* (src/contracts/FreelanceEscrow.sol).  Every external function of the    *)
(* contract is one action; a call that reverts leaves the contract state   *)
(* and every balance as they were and is recorded in lastCall with         *)
(* ok = FALSE.  The custody primitive is the native coin plus the ERC20    *)
(* calls the contract makes; the contract never reads the boolean an       *)
(* ERC20 call returns, so a token that reports failure by returning false  *)
(* is modelled next to one that reverts.                                   *)
(*                                                                         *)
(* The SubscriptionPool billing engine (the Solidity contract carried in   *)
(* src/frontend/next.config.js) is modelled the same way in the second     *)
(* half of the module; it is a separate deployment with its own storage    *)
(* and its own balance, and shares with the escrow contract only the       *)
(* accounts' wallets and the clock.                                        *)
(***************************************************************************)
EXTENDS Integers, Sequences, FiniteSets, TLC

\* ------------------------------------------------------------ bounds
MaxEscrows == 1
MaxTime == 2
MaxPools == 1
MaxPoolTime == 60
MaxPaidShares == 2
MaxSharedPools == 2
MaxRetryTime == 90

\* ------------------------------------------------ program constants
INITIAL_PLATFORM_FEE == 250
MAX_PLATFORM_FEE == 1000
BPS_DENOMINATOR == 10000
INITIAL_POOL_FEE == 200
MAX_POOL_FEE == 500
MAX_FAILED_PAYMENTS == 2
THIRTY_DAYS == 30
MIN_MEMBERS == 2
MAX_MEMBERS == 20

\* ------------------------------------------------------ environment
Accounts == {"owner", "alice", "bob", "carol"}
\* every wallet: the accounts above and three that only ever use the pools
Holders == Accounts \cup {"dave", "erin", "frank"}
ZERO == "0x0"
owner == "owner"
\* address(0) as a token reference denotes the native coin
NATIVE == "ETH"
\* an ERC20 whose transfer/transferFrom revert on failure
REVERTING == "TKN"
\* an ERC20 whose transfer/transferFrom return false on failure
FALSE_RETURNING == "TKF"
Tokens == {NATIVE, REVERTING, FALSE_RETURNING}
\* accounts that are contracts and may refuse a native-coin payment
MayRefuse == {"bob"}
Amounts == {30, 1000}
Hashes == {"", "QmA"}
FeeInputs == {1000, 1001}
MediatorInputs == {"carol"}
Wallet(acct) ==
  IF acct = "alice" THEN 1000 ELSE IF acct = "bob" THEN 30
  ELSE IF acct = "dave" THEN 600 ELSE IF acct = "erin" THEN 300
  ELSE IF acct = "frank" THEN 100 ELSE 0

\* ------------------------------------------------------------- state
VARIABLES escrows, nextEscrowId, platformFee, feeRecipient, approvedMediators,
          now, bal, custody, audit, lastCall, events

\* storage and balance of the SubscriptionPool contract
VARIABLES pools, nextPoolId, poolPlatformFee, poolFeeRecipient, poolCustody, poolAudit

poolVars == <<pools, nextPoolId, poolPlatformFee, poolFeeRecipient, poolCustody, poolAudit>>

engine == <<escrows, nextEscrowId, platformFee, feeRecipient, approvedMediators>>
funds == <<bal, custody, audit>>
vars == <<escrows, nextEscrowId, platformFee, feeRecipient, approvedMediators,
          now, bal, custody, audit, lastCall, events, poolVars>>

Statuses == {"Created", "Funded", "WorkSubmitted", "Completed", "Disputed",
             "Cancelled", "Refunded"}

\* the zero-initialised struct a mapping returns for an id never written
EmptyEscrow ==
  [id |-> 0, client |-> ZERO, freelancer |-> ZERO, mediator |-> ZERO, amount |-> 0,
   token |-> NATIVE, status |-> "Created", deadline |-> 0, deliveryHash |-> "",
   createdAt |-> 0, lastUpdated |-> 0, clientApproved |-> FALSE,
   freelancerSubmitted |-> FALSE]

EscrowAt(_escrowId) ==
  IF _escrowId \in 1..Len(escrows) THEN escrows[_escrowId] ELSE EmptyEscrow

EmptyAudit == [debited |-> 0, toClient |-> 0, toFreelancer |-> 0, toFee |-> 0,
               releases |-> 0]

NoCall == [op |-> "none", sender |-> ZERO, id |-> 0, value |-> 0, clientAmount |-> 0,
           freelancerAmount |-> 0, hash |-> "", refused |-> {}, ok |-> TRUE]

Call(op, sender, id, ok) == [NoCall EXCEPT !.op = op, !.sender = sender, !.id = id,
                                          !.ok = ok]

Init ==
  /\ escrows = <<>>
  /\ nextEscrowId = 1
  /\ platformFee = INITIAL_PLATFORM_FEE
  /\ feeRecipient = "carol"
  /\ approvedMediators = {}
  /\ now = 0
  /\ bal = [t \in Tokens |-> [a \in Holders |-> Wallet(a)]]
  /\ custody = [t \in Tokens |-> 0]
  /\ audit = <<>>
  /\ lastCall = NoCall
  /\ events = <<>>
  /\ pools = <<>>
  /\ nextPoolId = 1
  /\ poolPlatformFee = INITIAL_POOL_FEE
  /\ poolFeeRecipient = "carol"
  /\ poolCustody = [t \in Tokens |-> 0]
  /\ poolAudit = <<>>

\* a rejected pool.setPlatformFee that keeps the fee it was asked to write
Revert_keepsFee(call) ==
  /\ lastCall' = [call EXCEPT !.ok = FALSE]
  /\ events' = <<>>
  /\ poolPlatformFee' = IF call.op = "pool.setPlatformFee" THEN call.value
                        ELSE poolPlatformFee
  /\ UNCHANGED <<engine, funds, now, pools, nextPoolId, poolFeeRecipient, poolCustody,
                 poolAudit>>

\* a reverted call: nothing but the record of the attempt changes
Revert(call) ==
  /\ lastCall' = [call EXCEPT !.ok = FALSE]
  /\ events' = <<>>
  /\ UNCHANGED <<engine, funds, now, poolVars>>

\* ------------------------------------------------------- modifiers
validEscrow(_escrowId) == _escrowId < nextEscrowId


\* onlyClient letting the other party of the escrow through as well
onlyClient_anyParty(_escrowId, sender) ==
  sender \in {EscrowAt(_escrowId).client, EscrowAt(_escrowId).freelancer}

onlyClient(_escrowId, sender) == EscrowAt(_escrowId).client = sender

onlyFreelancer(_escrowId, sender) == EscrowAt(_escrowId).freelancer = sender

onlyMediator_anyone(_escrowId, sender) == sender \in Accounts
onlyMediator(_escrowId, sender) == EscrowAt(_escrowId).mediator = sender

onlyParties(_escrowId, sender) ==
  \/ sender = EscrowAt(_escrowId).client
  \/ sender = EscrowAt(_escrowId).freelancer

onlyOwner(sender) == sender = owner

\* ------------------------------------------------ custody primitive
\* IERC20.transferFrom(from, this, amt) as the two token kinds implement it;
\* the result is what the call does, never what the contract makes of it
TransferFrom(token, from, amt) ==
  IF bal[token][from] >= amt THEN "moved"
  ELSE IF token = REVERTING THEN "revert" ELSE "false"

\* one _transferFunds(_to, _amount, _token) on a ledger L = [bal, held] of
\* that token; refused is the set of accounts refusing native payments now
TransferFunds(L, to, amt, token, refused) ==
  LET moved == [L EXCEPT !.bal[to] = @ + amt, !.held = @ - amt, !.sent = @ + amt]
  IN  IF token = NATIVE
      THEN IF L.held >= amt /\ to \notin refused
           THEN moved ELSE [L EXCEPT !.reverted = TRUE]
      ELSE IF L.held >= amt THEN moved
           ELSE IF token = REVERTING THEN [L EXCEPT !.reverted = TRUE]
           ELSE L

Ledger(token) == [bal |-> bal[token], held |-> custody[token], sent |-> 0,
                  reverted |-> FALSE]

\* fee split of _releasePayment
Fee(amount, feeBps) == (amount * feeBps) \div BPS_DENOMINATOR

\* the two transfers of _releasePayment, in the order the code makes them
ReleasePayment(escrow, feeBps, refused) ==
  LET fee == Fee(escrow.amount, feeBps)
      freelancerPayout == escrow.amount - fee
      L1 == TransferFunds(Ledger(escrow.token), escrow.freelancer, freelancerPayout,
                          escrow.token, refused)
      L2 == IF L1.reverted THEN L1
            ELSE TransferFunds(L1, feeRecipient, fee, escrow.token, refused)
  IN  [L |-> L2, freelancerPayout |-> freelancerPayout, fee |-> fee,
       toFreelancer |-> L1.sent, toFee |-> L2.sent - L1.sent]

\* the transfers of resolveDispute: freelancer first, then client, each only
\* when its amount is positive
ResolvePayment(escrow, _clientAmount, _freelancerAmount, refused) ==
  LET L1 == IF _freelancerAmount > 0
            THEN TransferFunds(Ledger(escrow.token), escrow.freelancer,
                               _freelancerAmount, escrow.token, refused)
            ELSE Ledger(escrow.token)
      L2 == IF L1.reverted \/ _clientAmount = 0 THEN L1
            ELSE TransferFunds(L1, escrow.client, _clientAmount, escrow.token, refused)
  IN  [L |-> L2, toFreelancer |-> L1.sent, toClient |-> L2.sent - L1.sent]

\* -------------------------------------------------- require clauses
\* the checks of createEscrow with a deadline that may equal the current time
createEscrow_require_sameTime(_freelancer, _mediator, _amount, _deadline) ==
  /\ _freelancer # ZERO
  /\ _amount > 0
  /\ _deadline >= now
  /\ (_mediator \in approvedMediators \/ _mediator = owner)

\* the checks of createEscrow on its arguments
createEscrow_require(_freelancer, _mediator, _amount, _deadline) ==
  /\ _freelancer # ZERO
  /\ _amount > 0
  /\ _deadline > now
  /\ (_mediator \in approvedMediators \/ _mediator = owner)


\* the status check of fundEscrow also passing a cancelled escrow
fundEscrow_require_cancelled(escrow) == escrow.status \in {"Created", "Cancelled"}

fundEscrow_require(escrow) == escrow.status = "Created"

\* the payment branch of fundEscrow: "revert", "moved" or "false"
fundEscrow_payment(escrow, sender, value) ==
  IF escrow.token = NATIVE
  THEN IF value = escrow.amount THEN "moved" ELSE "revert"
  ELSE IF value # 0 THEN "revert"
       ELSE TransferFrom(escrow.token, sender, escrow.amount)


\* the deadline check of submitWork with a strict comparison
submitWork_require_strict(escrow, _deliveryHash) ==
  /\ escrow.status = "Funded"
  /\ now < escrow.deadline
  /\ _deliveryHash # ""

submitWork_require(escrow, _deliveryHash) ==
  /\ escrow.status = "Funded"
  /\ now <= escrow.deadline
  /\ _deliveryHash # ""


\* the status check of approveWork also passing an escrow already completed
approveWork_require_again(escrow) == escrow.status \in {"WorkSubmitted", "Completed"}

approveWork_require(escrow) == escrow.status = "WorkSubmitted"


\* the status check of raiseDispute also passing an escrow not yet funded
raiseDispute_require_unfunded(escrow) ==
  escrow.status \in {"Created", "Funded", "WorkSubmitted"}

raiseDispute_require(escrow) == escrow.status \in {"Funded", "WorkSubmitted"}

\* the status check of resolveDispute reading the status nothing ever sets
resolveDispute_require_refunded(escrow, _clientAmount, _freelancerAmount) ==
  /\ escrow.status = "Refunded"
  /\ _clientAmount + _freelancerAmount = escrow.amount

\* the checks of resolveDispute on the escrow and the split
resolveDispute_require(escrow, _clientAmount, _freelancerAmount) ==
  /\ escrow.status = "Disputed"
  /\ _clientAmount + _freelancerAmount = escrow.amount


\* the status check of cancelEscrow also passing a funded escrow
cancelEscrow_require_funded(escrow) == escrow.status \in {"Created", "Funded"}

cancelEscrow_require(escrow) == escrow.status = "Created"

setPlatformFee_require(_fee) == _fee <= MAX_PLATFORM_FEE

setFeeRecipient_require(_feeRecipient) == _feeRecipient # ZERO

\* -------------------------------------------------------- operations
CreateEscrow(sender, _freelancer, _mediator, _amount, _token, _deadline) ==
  /\ nextEscrowId <= MaxEscrows
  /\ IF createEscrow_require(_freelancer, _mediator, _amount, _deadline)
     THEN /\ escrows' = Append(escrows,
                [id |-> nextEscrowId, client |-> sender, freelancer |-> _freelancer,
                 mediator |-> _mediator, amount |-> _amount, token |-> _token,
                 status |-> "Created", deadline |-> _deadline, deliveryHash |-> "",
                 createdAt |-> now, lastUpdated |-> now, clientApproved |-> FALSE,
                 freelancerSubmitted |-> FALSE])
          /\ nextEscrowId' = nextEscrowId + 1
          /\ audit' = Append(audit, EmptyAudit)
          /\ lastCall' = Call("createEscrow", sender, nextEscrowId, TRUE)
          /\ events' = << <<"EscrowCreated", nextEscrowId, sender, _freelancer,
                            _amount, _token>> >>
          /\ UNCHANGED <<poolVars, platformFee, feeRecipient, approvedMediators, now, bal, custody>>
     ELSE Revert(Call("createEscrow", sender, 0, FALSE))

FundEscrow(sender, _escrowId, value) ==
  LET escrow == EscrowAt(_escrowId)
      call == [Call("fundEscrow", sender, _escrowId, TRUE) EXCEPT !.value = value]
      paid == fundEscrow_payment(escrow, sender, value)
      got == IF paid = "moved" THEN escrow.amount ELSE 0
  IN  /\ bal[NATIVE][sender] >= value
      /\ IF /\ validEscrow(_escrowId)
            /\ onlyClient(_escrowId, sender)
            /\ fundEscrow_require(escrow)
            /\ paid # "revert"
         THEN /\ escrows' = [escrows EXCEPT ![_escrowId].status = "Funded",
                                            ![_escrowId].lastUpdated = now]
              /\ bal' = [bal EXCEPT ![escrow.token][sender] = @ - got]
              /\ custody' = [custody EXCEPT ![escrow.token] = @ + got]
              /\ audit' = [audit EXCEPT ![_escrowId].debited = @ + got]
              /\ lastCall' = call
              /\ events' = << <<"EscrowFunded", _escrowId, escrow.amount>> >>
              /\ UNCHANGED <<poolVars, nextEscrowId, platformFee, feeRecipient, approvedMediators, now>>
         ELSE Revert(call)

\* submitWork accepting a second delivery for work already submitted
SubmitWork_again(sender, _escrowId, _deliveryHash) ==
  LET escrow == EscrowAt(_escrowId)
      call == [Call("submitWork", sender, _escrowId, TRUE) EXCEPT !.hash = _deliveryHash]
  IN  IF /\ validEscrow(_escrowId)
         /\ onlyFreelancer(_escrowId, sender)
         /\ escrow.status \in {"Funded", "WorkSubmitted"}
         /\ now <= escrow.deadline
         /\ _deliveryHash # ""
      THEN /\ escrows' = [escrows EXCEPT ![_escrowId].deliveryHash = _deliveryHash,
                                         ![_escrowId].freelancerSubmitted = TRUE,
                                         ![_escrowId].status = "WorkSubmitted",
                                         ![_escrowId].lastUpdated = now]
           /\ lastCall' = call
           /\ events' = << <<"WorkSubmitted", _escrowId, _deliveryHash>> >>
           /\ UNCHANGED <<poolVars, nextEscrowId, platformFee, feeRecipient, approvedMediators,
                          now, funds>>
      ELSE Revert(call)

SubmitWork(sender, _escrowId, _deliveryHash) ==
  LET escrow == EscrowAt(_escrowId)
      call == [Call("submitWork", sender, _escrowId, TRUE) EXCEPT !.hash = _deliveryHash]
  IN  IF /\ validEscrow(_escrowId)
         /\ onlyFreelancer(_escrowId, sender)
         /\ submitWork_require(escrow, _deliveryHash)
      THEN /\ escrows' = [escrows EXCEPT ![_escrowId].deliveryHash = _deliveryHash,
                                         ![_escrowId].freelancerSubmitted = TRUE,
                                         ![_escrowId].status = "WorkSubmitted",
                                         ![_escrowId].lastUpdated = now]
           /\ lastCall' = call
           /\ events' = << <<"WorkSubmitted", _escrowId, _deliveryHash>> >>
           /\ UNCHANGED <<poolVars, nextEscrowId, platformFee, feeRecipient, approvedMediators,
                          now, funds>>
      ELSE Revert(call)

ApproveWork(sender, _escrowId, refused) ==
  LET escrow == EscrowAt(_escrowId)
      call == [Call("approveWork", sender, _escrowId, TRUE) EXCEPT !.refused = refused]
      pay == ReleasePayment(escrow, platformFee, refused)
  IN  IF /\ validEscrow(_escrowId)
         /\ onlyClient(_escrowId, sender)
         /\ approveWork_require(escrow)
         /\ ~pay.L.reverted
      THEN /\ escrows' = [escrows EXCEPT ![_escrowId].clientApproved = TRUE,
                                         ![_escrowId].status = "Completed",
                                         ![_escrowId].lastUpdated = now]
           /\ bal' = [bal EXCEPT ![escrow.token] = pay.L.bal]
           /\ custody' = [custody EXCEPT ![escrow.token] = pay.L.held]
           /\ audit' = [audit EXCEPT ![_escrowId].toFreelancer = @ + pay.toFreelancer,
                                     ![_escrowId].toFee = @ + pay.toFee,
                                     ![_escrowId].releases = @ + 1]
           /\ lastCall' = call
           /\ events' = << <<"EscrowCompleted", _escrowId, pay.freelancerPayout, pay.fee>>,
                           <<"WorkApproved", _escrowId>> >>
           /\ UNCHANGED <<poolVars, nextEscrowId, platformFee, feeRecipient, approvedMediators, now>>
      ELSE Revert(call)

RaiseDispute(sender, _escrowId) ==
  LET escrow == EscrowAt(_escrowId)
      call == Call("raiseDispute", sender, _escrowId, TRUE)
  IN  IF /\ validEscrow(_escrowId)
         /\ onlyParties(_escrowId, sender)
         /\ raiseDispute_require(escrow)
      THEN /\ escrows' = [escrows EXCEPT ![_escrowId].status = "Disputed",
                                         ![_escrowId].lastUpdated = now]
           /\ lastCall' = call
           /\ events' = << <<"DisputeRaised", _escrowId, sender>> >>
           /\ UNCHANGED <<poolVars, nextEscrowId, platformFee, feeRecipient, approvedMediators,
                          now, funds>>
      ELSE Revert(call)

ResolveDispute(sender, _escrowId, _clientAmount, _freelancerAmount, refused) ==
  LET escrow == EscrowAt(_escrowId)
      call == [Call("resolveDispute", sender, _escrowId, TRUE) EXCEPT
                 !.clientAmount = _clientAmount,
                 !.freelancerAmount = _freelancerAmount,
                 !.refused = refused]
      pay == ResolvePayment(escrow, _clientAmount, _freelancerAmount, refused)
      winner == IF _freelancerAmount > _clientAmount THEN escrow.freelancer
                ELSE escrow.client
  IN  IF /\ validEscrow(_escrowId)
         /\ onlyMediator(_escrowId, sender)
         /\ resolveDispute_require(escrow, _clientAmount, _freelancerAmount)
         /\ ~pay.L.reverted
      THEN /\ escrows' = [escrows EXCEPT ![_escrowId].status = "Completed",
                                         ![_escrowId].lastUpdated = now]
           /\ bal' = [bal EXCEPT ![escrow.token] = pay.L.bal]
           /\ custody' = [custody EXCEPT ![escrow.token] = pay.L.held]
           /\ audit' = [audit EXCEPT ![_escrowId].toFreelancer = @ + pay.toFreelancer,
                                     ![_escrowId].toClient = @ + pay.toClient,
                                     ![_escrowId].releases = @ + 1]
           /\ lastCall' = call
           /\ events' = << <<"DisputeResolved", _escrowId, winner, _clientAmount,
                             _freelancerAmount>> >>
           /\ UNCHANGED <<poolVars, nextEscrowId, platformFee, feeRecipient, approvedMediators, now>>
      ELSE Revert(call)

CancelEscrow(sender, _escrowId) ==
  LET escrow == EscrowAt(_escrowId)
      call == Call("cancelEscrow", sender, _escrowId, TRUE)
  IN  IF /\ validEscrow(_escrowId)
         /\ onlyClient(_escrowId, sender)
         /\ cancelEscrow_require(escrow)
      THEN /\ escrows' = [escrows EXCEPT ![_escrowId].status = "Cancelled",
                                         ![_escrowId].lastUpdated = now]
           /\ lastCall' = call
           /\ events' = << <<"EscrowCancelled", _escrowId>> >>
           /\ UNCHANGED <<poolVars, nextEscrowId, platformFee, feeRecipient, approvedMediators,
                          now, funds>>
      ELSE Revert(call)

\* ------------------------------------------------------------- admin
AddMediator(sender, _mediator) ==
  IF onlyOwner(sender)
  THEN /\ approvedMediators' = approvedMediators \cup {_mediator}
       /\ lastCall' = Call("addMediator", sender, 0, TRUE)
       /\ events' = <<>>
       /\ UNCHANGED <<poolVars, escrows, nextEscrowId, platformFee, feeRecipient, now, funds>>
  ELSE Revert(Call("addMediator", sender, 0, FALSE))

RemoveMediator(sender, _mediator) ==
  IF onlyOwner(sender)
  THEN /\ approvedMediators' = approvedMediators \ {_mediator}
       /\ lastCall' = Call("removeMediator", sender, 0, TRUE)
       /\ events' = <<>>
       /\ UNCHANGED <<poolVars, escrows, nextEscrowId, platformFee, feeRecipient, now, funds>>
  ELSE Revert(Call("removeMediator", sender, 0, FALSE))

SetPlatformFee(sender, _fee) ==
  IF onlyOwner(sender) /\ setPlatformFee_require(_fee)
  THEN /\ platformFee' = _fee
       /\ lastCall' = Call("setPlatformFee", sender, 0, TRUE)
       /\ events' = <<>>
       /\ UNCHANGED <<poolVars, escrows, nextEscrowId, feeRecipient, approvedMediators, now, funds>>
  ELSE Revert(Call("setPlatformFee", sender, 0, FALSE))

SetFeeRecipient(sender, _feeRecipient) ==
  IF onlyOwner(sender) /\ setFeeRecipient_require(_feeRecipient)
  THEN /\ feeRecipient' = _feeRecipient
       /\ lastCall' = Call("setFeeRecipient", sender, 0, TRUE)
       /\ events' = <<>>
       /\ UNCHANGED <<poolVars, escrows, nextEscrowId, platformFee, approvedMediators, now, funds>>
  ELSE Revert(Call("setFeeRecipient", sender, 0, FALSE))

\* block.timestamp advances between calls
Tick ==
  /\ now < MaxTime
  /\ now' = now + 1
  /\ lastCall' = NoCall
  /\ events' = <<>>
  /\ UNCHANGED <<poolVars, engine, funds>>

\* ------------------------------------------------------------ inputs
EscrowIds == 1..MaxEscrows
Creators == {"alice", "bob"}
FreelancerInputs == {ZERO, "bob"}
RecipientInputs == {ZERO, "carol"}
AdminCallers == {owner, "alice"}
\* the accounts that may refuse the native payments of a settlement call
Refusers(_escrowId, recipients) ==
  IF /\ EscrowAt(_escrowId).token = NATIVE
     /\ EscrowAt(_escrowId).status \in {"WorkSubmitted", "Disputed"}
  THEN SUBSET (MayRefuse \cap recipients) ELSE {{}}
\* msg.value offered to fundEscrow: the right and two wrong amounts by the client
FundValues(sender, _escrowId) ==
  IF onlyClient(_escrowId, sender) THEN {0} \cup Amounts ELSE {0}
SubmitHashes(sender, _escrowId) ==
  IF onlyFreelancer(_escrowId, sender) THEN Hashes ELSE Hashes \ {""}
\* <<clientAmount, freelancerAmount>> pairs offered to resolveDispute
ResolveInputs(_escrowId) ==
  LET amount == EscrowAt(_escrowId).amount
  IN  IF EscrowAt(_escrowId).status = "Disputed"
      THEN {<<0, amount>>, <<amount, 0>>, <<1, amount - 1>>, <<1, amount>>, <<0, 0>>}
      ELSE {<<0, amount>>}

Next ==
  \/ \E sender \in Creators, f \in FreelancerInputs, m \in {owner} \cup MediatorInputs,
        a \in {0} \cup Amounts, t \in Tokens, d \in {now, now + 1} :
        CreateEscrow(sender, f, m, a, t, d)
  \/ \E sender \in Accounts, id \in EscrowIds :
        \E v \in FundValues(sender, id) : FundEscrow(sender, id, v)
  \/ \E sender \in Accounts, id \in EscrowIds :
        \E h \in SubmitHashes(sender, id) : SubmitWork(sender, id, h)
  \/ \E sender \in Accounts, id \in EscrowIds :
        \E r \in Refusers(id, {EscrowAt(id).freelancer, feeRecipient}) :
           ApproveWork(sender, id, r)
  \/ \E sender \in Accounts, id \in EscrowIds : RaiseDispute(sender, id)
  \/ \E sender \in Accounts, id \in EscrowIds :
        \E ab \in ResolveInputs(id),
           r \in Refusers(id, {EscrowAt(id).freelancer, EscrowAt(id).client}) :
           ResolveDispute(sender, id, ab[1], ab[2], r)
  \/ \E sender \in Accounts, id \in EscrowIds : CancelEscrow(sender, id)
  \/ \E sender \in AdminCallers, m \in MediatorInputs : AddMediator(sender, m)
  \/ \E sender \in AdminCallers, m \in MediatorInputs : RemoveMediator(sender, m)
  \/ \E sender \in AdminCallers, f \in FeeInputs : SetPlatformFee(sender, f)
  \/ \E sender \in AdminCallers, r \in RecipientInputs : SetFeeRecipient(sender, r)
  \/ Tick

Spec == Init /\ [][Next]_vars

\* ===================================================== SubscriptionPool
PoolStatuses == {"Active", "Paused", "Cancelled"}

\* the zero-initialised Member a mapping returns for an address never written
EmptyMember == [isActive |-> FALSE, joinedAt |-> 0, lastPayment |-> 0,
                failedPaymentCount |-> 0, totalPaid |-> 0]

\* the zero-initialised Pool (failedPayments is never written and is left out)
EmptyPool ==
  [id |-> 0, owner |-> ZERO, serviceName |-> "", monthlyAmount |-> 0, token |-> NATIVE,
   maxMembers |-> 0, currentMembers |-> 0, status |-> "Active", nextPaymentDue |-> 0,
   createdAt |-> 0, members |-> [a \in Holders |-> EmptyMember], memberList |-> <<>>]

PoolAt(_poolId) == IF _poolId \in 1..Len(pools) THEN pools[_poolId] ELSE EmptyPool

\* amounts actually moved on behalf of one pool
EmptyPoolAudit == [collected |-> 0, toOwner |-> 0, toFee |-> 0, payouts |-> 0]

LEFT_VOLUNTARILY == "Member left voluntarily"
TOO_MANY_FAILED == "Too many failed payments"

\* ------------------------------------------------------- modifiers
onlyPoolOwner(_poolId, sender) == PoolAt(_poolId).owner = sender

validPool(_poolId) == _poolId < nextPoolId

\* a status check that also passes a paused pool
poolActive_orPaused(_poolId) == PoolAt(_poolId).status \in {"Active", "Paused"}

\* modifier poolActive
poolActive(_poolId) == PoolAt(_poolId).status = "Active"

\* -------------------------------------------------- require clauses
createPool_require(_serviceName, _monthlyAmount, _maxMembers) ==
  /\ _serviceName # ""
  /\ _monthlyAmount > 0
  /\ _maxMembers >= MIN_MEMBERS /\ _maxMembers <= MAX_MEMBERS

\* joinPool without the "Already a member" check
joinPool_require_again(pool, sender) ==
  /\ pool.currentMembers < pool.maxMembers
  /\ sender # pool.owner

joinPool_require(pool, sender) ==
  /\ pool.currentMembers < pool.maxMembers
  /\ ~pool.members[sender].isActive
  /\ sender # pool.owner

leavePool_require(pool, sender) == pool.members[sender].isActive

collectPayments_require(pool) == now >= pool.nextPaymentDue

manualPayment_require(pool, sender) == pool.members[sender].isActive

\* the pool fee checked against the escrow contract's cap
poolSetPlatformFee_require_escrowCap(_fee) == _fee <= MAX_PLATFORM_FEE

\* require(_fee <= 500) of the pool contract's setPlatformFee
poolSetPlatformFee_require(_fee) == _fee <= MAX_POOL_FEE

poolSetFeeRecipient_require(_feeRecipient) == _feeRecipient # ZERO

\* ------------------------------------------------ custody primitives
\* uint256 memberShare = pool.monthlyAmount / pool.maxMembers
MemberShare(pool) == pool.monthlyAmount \div pool.maxMembers

\* the contract's books in one token: wallets, the contract's own balance,
\* what this call pulled in and sent out, and whether the call has reverted
PoolLedger(token) == [bal |-> bal[token], held |-> poolCustody[token], pulled |-> 0,
                      sent |-> 0, reverted |-> FALSE]

\* IERC20.transferFrom(from, this, amt) on ledger L, with what the call does
\* ("moved", "revert" or "false"); the contract never reads the result
PullToken(L, token, from, amt) ==
  IF L.bal[from] >= amt
  THEN [L |-> [L EXCEPT !.bal[from] = @ - amt, !.held = @ + amt, !.pulled = @ + amt],
        result |-> "moved"]
  ELSE [L |-> L, result |-> IF token = REVERTING THEN "revert" ELSE "false"]

\* the payment branch shared by joinPool and manualPayment
PoolPayment(L, pool, sender, value) ==
  IF pool.token = NATIVE
  THEN IF value = MemberShare(pool)
       THEN [L |-> [L EXCEPT !.bal[sender] = @ - value, !.held = @ + value,
                              !.pulled = @ + value],
             result |-> "moved"]
       ELSE [L |-> L, result |-> "revert"]
  ELSE IF value # 0 THEN [L |-> L, result |-> "revert"]
       ELSE PullToken(L, pool.token, sender, MemberShare(pool))

\* one leg of _processPayout: a native call whose failure reverts, or an
\* ERC20 transfer whose result is not read
PayTo(L, to, amt, token, refused) ==
  LET moved == [L EXCEPT !.bal[to] = @ + amt, !.held = @ - amt, !.sent = @ + amt]
  IN  IF token = NATIVE
      THEN IF L.held >= amt /\ to \notin refused
           THEN moved ELSE [L EXCEPT !.reverted = TRUE]
      ELSE IF L.held >= amt THEN moved
           ELSE IF token = REVERTING THEN [L EXCEPT !.reverted = TRUE]
           ELSE L

\* a fee taken at the rate the contract was deployed with
PoolFee_atDeployment(_amount, feeBps) == (_amount * INITIAL_POOL_FEE) \div BPS_DENOMINATOR

\* uint256 fee = (_amount * platformFee) / 10000
PoolFee(_amount, feeBps) == (_amount * feeBps) \div BPS_DENOMINATOR

\* _processPayout(_poolId, _amount): owner first, then the fee recipient
ProcessPayout(L, pool, _amount, refused) ==
  LET fee == PoolFee(_amount, poolPlatformFee)
      ownerPayout == _amount - fee
      L1 == PayTo(L, pool.owner, ownerPayout, pool.token, refused)
      L2 == IF L1.reverted THEN L1
            ELSE PayTo(L1, poolFeeRecipient, fee, pool.token, refused)
  IN  [L |-> L2, paid |-> TRUE, ownerPayout |-> ownerPayout, fee |-> fee,
       toOwner |-> L1.sent - L.sent, toFee |-> L2.sent - L1.sent,
       events |-> << <<"PayoutCompleted", pool.id, ownerPayout, fee>> >>]

NoPayout(L) == [L |-> L, paid |-> FALSE, ownerPayout |-> 0, fee |-> 0, toOwner |-> 0,
                toFee |-> 0, events |-> <<>>]

\* _checkAndProcessPayout: the contract's whole balance in the pool's token
\* against memberShare * currentMembers
CheckAndProcessPayout(L, pool, refused) ==
  LET expectedTotal == MemberShare(pool) * pool.currentMembers
      balance == L.held
  IN  IF balance >= expectedTotal THEN ProcessPayout(L, pool, expectedTotal, refused)
      ELSE NoPayout(L)

\* a removal that pops the last entry without the swap
SwapPop_popLast(list, _member) == SubSeq(list, 1, Len(list) - 1)

\* memberList after the swap-with-last-and-pop of _removeMember
SwapPop(list, _member) ==
  IF \E i \in 1..Len(list) : list[i] = _member
  THEN LET i == CHOOSE k \in 1..Len(list) :
                   /\ list[k] = _member
                   /\ \A j \in 1..(k - 1) : list[j] # _member
       IN  SubSeq([list EXCEPT ![i] = list[Len(list)]], 1, Len(list) - 1)
  ELSE list

\* _removeMember on a pool record (currentMembers-- is checked arithmetic)
RemoveMember(pool, _member, _reason) ==
  [pool |-> [pool EXCEPT !.members[_member].isActive = FALSE,
                         !.currentMembers = @ - 1,
                         !.memberList = SwapPop(@, _member)],
   panic |-> pool.currentMembers = 0,
   events |-> << <<"MemberRemoved", pool.id, _member, _reason>>,
                 <<"MemberLeft", pool.id, _member>> >>]

\* --------------------------------------------------- collection tick
\* collectFromMember, reached only through the contract's call to itself:
\* native pools always revert, token pools pull with transferFrom
CollectFromMember(L, pool, _member, _amount) ==
  IF pool.token = NATIVE THEN [L |-> L, result |-> "revert"]
  ELSE PullToken(L, pool.token, _member, _amount)

\* a try body that leaves failedPaymentCount as it finds it
TryCollectPayment_keepsCount(L, pool, _member, _amount) ==
  LET inner == CollectFromMember(L, pool, _member, _amount)
  IN  IF inner.result # "revert"
      THEN [success |-> TRUE, L |-> inner.L,
            pool |-> [pool EXCEPT !.members[_member].lastPayment = now,
                                  !.members[_member].totalPaid = @ + _amount],
            events |-> << <<"PaymentCollected", pool.id, _member, _amount>> >>]
      ELSE [success |-> FALSE, L |-> L, pool |-> pool, events |-> <<>>]

\* _tryCollectPayment: the try body runs unless the inner call reverted
TryCollectPayment(L, pool, _member, _amount) ==
  LET inner == CollectFromMember(L, pool, _member, _amount)
  IN  IF inner.result # "revert"
      THEN [success |-> TRUE, L |-> inner.L,
            pool |-> [pool EXCEPT !.members[_member].lastPayment = now,
                                  !.members[_member].totalPaid = @ + _amount,
                                  !.members[_member].failedPaymentCount = 0],
            events |-> << <<"PaymentCollected", pool.id, _member, _amount>> >>]
      ELSE [success |-> FALSE, L |-> L, pool |-> pool, events |-> <<>>]

\* the for loop of collectPayments from index S.i (0-based, as in the code);
\* i-- on an unsigned zero is an arithmetic panic that reverts the call
RECURSIVE CollectLoop(_)
CollectLoop(S) ==
  IF S.panic \/ S.i >= Len(S.pool.memberList) THEN S
  ELSE
    LET member == S.pool.memberList[S.i + 1]
        memberShare == MemberShare(S.pool)
        try == TryCollectPayment(S.L, S.pool, member, memberShare)
        failed == [S.pool EXCEPT !.members[member].failedPaymentCount = @ + 1]
        removed == RemoveMember(failed, member, TOO_MANY_FAILED)
    IN  IF ~S.pool.members[member].isActive
        THEN CollectLoop([S EXCEPT !.i = @ + 1])
        ELSE IF try.success
        THEN CollectLoop([S EXCEPT !.pool = try.pool, !.L = try.L,
                                   !.successfulPayments = @ + 1,
                                   !.totalCollected = @ + memberShare,
                                   !.events = @ \o try.events,
                                   !.i = @ + 1])
        ELSE IF failed.members[member].failedPaymentCount >= MAX_FAILED_PAYMENTS
        THEN CollectLoop([S EXCEPT !.pool = removed.pool,
                                   !.events = @ \o << <<"PaymentFailed", S.pool.id, member>> >>
                                                \o removed.events,
                                   !.panic = removed.panic \/ S.i = 0,
                                   !.i = (@ - 1) + 1])
        ELSE CollectLoop([S EXCEPT !.pool = failed,
                                   !.events = @ \o << <<"PaymentFailed", S.pool.id, member>> >>,
                                   !.i = @ + 1])

\* a due time counted from the previous due time
NextPaymentDue_fromPrevious(pool) == pool.nextPaymentDue + THIRTY_DAYS
\* the next due time collectPayments writes
NextPaymentDue(pool) == now + THIRTY_DAYS

\* the whole body of collectPayments after its require
CollectPaymentsBody(pool, refused) ==
  LET S == CollectLoop([pool |-> pool, L |-> PoolLedger(pool.token), i |-> 0,
                        successfulPayments |-> 0, totalCollected |-> 0,
                        events |-> <<>>, panic |-> FALSE])
      due == [S.pool EXCEPT !.nextPaymentDue = NextPaymentDue(pool)]
      pay == IF S.totalCollected > 0
             THEN ProcessPayout(S.L, due, S.totalCollected, refused)
             ELSE NoPayout(S.L)
  IN  [pool |-> due, pay |-> pay, totalCollected |-> S.totalCollected,
       successfulPayments |-> S.successfulPayments,
       events |-> S.events \o pay.events,
       reverted |-> S.panic \/ pay.L.reverted]

escrowVars == <<engine, custody, audit>>

\* the books after a pool call that went through
PoolBooks(_poolId, pool, pay) ==
  /\ pools' = [pools EXCEPT ![_poolId] = pool]
  /\ bal' = [bal EXCEPT ![pool.token] = pay.L.bal]
  /\ poolCustody' = [poolCustody EXCEPT ![pool.token] = pay.L.held]
  /\ poolAudit' = [poolAudit EXCEPT ![_poolId].collected = @ + pay.L.pulled,
                                    ![_poolId].toOwner = @ + pay.toOwner,
                                    ![_poolId].toFee = @ + pay.toFee,
                                    ![_poolId].payouts = @ + (IF pay.paid THEN 1 ELSE 0)]

\* ------------------------------------------------------- operations
CreatePool(sender, _serviceName, _monthlyAmount, _token, _maxMembers) ==
  LET call == [Call("createPool", sender, nextPoolId, TRUE) EXCEPT !.value = _monthlyAmount]
  IN  IF createPool_require(_serviceName, _monthlyAmount, _maxMembers)
      THEN /\ pools' = Append(pools,
                 [EmptyPool EXCEPT !.id = nextPoolId, !.owner = sender,
                                   !.serviceName = _serviceName,
                                   !.monthlyAmount = _monthlyAmount, !.token = _token,
                                   !.maxMembers = _maxMembers, !.currentMembers = 0,
                                   !.status = "Active",
                                   !.nextPaymentDue = now + THIRTY_DAYS,
                                   !.createdAt = now])
           /\ nextPoolId' = nextPoolId + 1
           /\ poolAudit' = Append(poolAudit, EmptyPoolAudit)
           /\ lastCall' = call
           /\ events' = << <<"PoolCreated", nextPoolId, sender, _serviceName,
                             _monthlyAmount, _maxMembers>> >>
           /\ UNCHANGED <<escrowVars, now, bal, poolPlatformFee, poolFeeRecipient,
                          poolCustody>>
      ELSE Revert(call)

JoinPool(sender, _poolId, value, refused) ==
  LET pool == PoolAt(_poolId)
      call == [Call("joinPool", sender, _poolId, TRUE) EXCEPT !.value = value,
                                                              !.refused = refused]
      paid == PoolPayment(PoolLedger(pool.token), pool, sender, value)
      joined == [pool EXCEPT !.members[sender] =
                                 [isActive |-> TRUE, joinedAt |-> now, lastPayment |-> now,
                                  failedPaymentCount |-> 0, totalPaid |-> MemberShare(pool)],
                             !.memberList = Append(@, sender),
                             !.currentMembers = @ + 1]
      pay == CheckAndProcessPayout(paid.L, joined, refused)
  IN  /\ bal[NATIVE][sender] >= value
      /\ IF /\ validPool(_poolId)
            /\ poolActive(_poolId)
            /\ joinPool_require(pool, sender)
            /\ paid.result # "revert"
            /\ ~pay.L.reverted
         THEN /\ PoolBooks(_poolId, joined, pay)
              /\ lastCall' = call
              /\ events' = << <<"MemberJoined", _poolId, sender>>,
                              <<"PaymentCollected", _poolId, sender, MemberShare(pool)>> >>
                           \o pay.events
              /\ UNCHANGED <<escrowVars, now, nextPoolId, poolPlatformFee, poolFeeRecipient>>
         ELSE Revert(call)

\* joinPool on a native-coin pool whose owner is a contract: the payout of
\* _processPayout hands control to the owner's receive function, which calls
\* pausePool or cancelPool on the same pool (hook is the function it calls).
\* Neither carries nonReentrant, so the status is written while joinPool is
\* still running and PoolStatusChanged is emitted before PayoutCompleted.
JoinPoolReentered(sender, _poolId, value, hook) ==
  LET pool == PoolAt(_poolId)
      call == [Call("joinPool", sender, _poolId, TRUE) EXCEPT !.value = value,
                                                              !.hash = hook]
      paid == PoolPayment(PoolLedger(pool.token), pool, sender, value)
      joined == [pool EXCEPT !.members[sender] =
                                 [isActive |-> TRUE, joinedAt |-> now, lastPayment |-> now,
                                  failedPaymentCount |-> 0, totalPaid |-> MemberShare(pool)],
                             !.memberList = Append(@, sender),
                             !.currentMembers = @ + 1]
      pay == CheckAndProcessPayout(paid.L, joined, {})
      newStatus == IF hook = "pausePool" THEN "Paused" ELSE "Cancelled"
  IN  /\ bal[NATIVE][sender] >= value
      /\ pool.token = NATIVE
      /\ validPool(_poolId)
      /\ poolActive(_poolId)
      /\ joinPool_require(pool, sender)
      /\ paid.result # "revert"
      /\ pay.paid /\ ~pay.L.reverted
      /\ onlyPoolOwner(_poolId, pool.owner)
      /\ PoolBooks(_poolId, [joined EXCEPT !.status = newStatus], pay)
      /\ lastCall' = call
      /\ events' = << <<"MemberJoined", _poolId, sender>>,
                      <<"PaymentCollected", _poolId, sender, MemberShare(pool)>>,
                      <<"PoolStatusChanged", _poolId, newStatus>> >>
                   \o pay.events
      /\ UNCHANGED <<escrowVars, now, nextPoolId, poolPlatformFee, poolFeeRecipient>>

LeavePool(sender, _poolId) ==
  LET pool == PoolAt(_poolId)
      call == Call("leavePool", sender, _poolId, TRUE)
      removed == RemoveMember(pool, sender, LEFT_VOLUNTARILY)
  IN  IF /\ validPool(_poolId)
         /\ leavePool_require(pool, sender)
         /\ ~removed.panic
      THEN /\ pools' = [pools EXCEPT ![_poolId] = removed.pool]
           /\ lastCall' = call
           /\ events' = removed.events
           /\ UNCHANGED <<escrowVars, now, bal, nextPoolId, poolPlatformFee,
                          poolFeeRecipient, poolCustody, poolAudit>>
      ELSE Revert(call)

CollectPayments(sender, _poolId, refused) ==
  LET pool == PoolAt(_poolId)
      call == [Call("collectPayments", sender, _poolId, TRUE) EXCEPT !.refused = refused]
      body == CollectPaymentsBody(pool, refused)
  IN  IF /\ validPool(_poolId)
         /\ poolActive(_poolId)
         /\ collectPayments_require(pool)
         /\ ~body.reverted
      THEN /\ PoolBooks(_poolId, body.pool, body.pay)
           /\ lastCall' = call
           /\ events' = body.events
           /\ UNCHANGED <<escrowVars, now, nextPoolId, poolPlatformFee, poolFeeRecipient>>
      ELSE Revert(call)

ManualPayment(sender, _poolId, value, refused) ==
  LET pool == PoolAt(_poolId)
      call == [Call("manualPayment", sender, _poolId, TRUE) EXCEPT !.value = value,
                                                                   !.refused = refused]
      paid == PoolPayment(PoolLedger(pool.token), pool, sender, value)
      credited == [pool EXCEPT !.members[sender].lastPayment = now,
                               !.members[sender].totalPaid = @ + MemberShare(pool),
                               !.members[sender].failedPaymentCount = 0]
      pay == CheckAndProcessPayout(paid.L, credited, refused)
  IN  /\ bal[NATIVE][sender] >= value
      /\ IF /\ validPool(_poolId)
            /\ poolActive(_poolId)
            /\ manualPayment_require(pool, sender)
            /\ paid.result # "revert"
            /\ ~pay.L.reverted
         THEN /\ PoolBooks(_poolId, credited, pay)
              /\ lastCall' = call
              /\ events' = << <<"PaymentCollected", _poolId, sender, MemberShare(pool)>> >>
                           \o pay.events
              /\ UNCHANGED <<escrowVars, now, nextPoolId, poolPlatformFee, poolFeeRecipient>>
         ELSE Revert(call)

\* pausePool, resumePool and cancelPool differ only in the status they write
SetPoolStatus(op, sender, _poolId, newStatus) ==
  LET call == Call(op, sender, _poolId, TRUE)
  IN  IF validPool(_poolId) /\ onlyPoolOwner(_poolId, sender)
      THEN /\ pools' = [pools EXCEPT ![_poolId].status = newStatus]
           /\ lastCall' = call
           /\ events' = << <<"PoolStatusChanged", _poolId, newStatus>> >>
           /\ UNCHANGED <<escrowVars, now, bal, nextPoolId, poolPlatformFee,
                          poolFeeRecipient, poolCustody, poolAudit>>
      ELSE Revert(call)

PausePool(sender, _poolId) == SetPoolStatus("pausePool", sender, _poolId, "Paused")

ResumePool(sender, _poolId) == SetPoolStatus("resumePool", sender, _poolId, "Active")

CancelPool(sender, _poolId) == SetPoolStatus("cancelPool", sender, _poolId, "Cancelled")

PoolSetPlatformFee(sender, _fee) ==
  LET call == [Call("pool.setPlatformFee", sender, 0, TRUE) EXCEPT !.value = _fee]
  IN  IF onlyOwner(sender) /\ poolSetPlatformFee_require(_fee)
      THEN /\ poolPlatformFee' = _fee
           /\ lastCall' = call
           /\ events' = <<>>
           /\ UNCHANGED <<escrowVars, now, bal, pools, nextPoolId, poolFeeRecipient,
                          poolCustody, poolAudit>>
      ELSE Revert(call)

PoolSetFeeRecipient(sender, _feeRecipient) ==
  LET call == [Call("pool.setFeeRecipient", sender, 0, TRUE) EXCEPT !.hash = _feeRecipient]
  IN  IF onlyOwner(sender) /\ poolSetFeeRecipient_require(_feeRecipient)
      THEN /\ poolFeeRecipient' = _feeRecipient
           /\ lastCall' = call
           /\ events' = <<>>
           /\ UNCHANGED <<escrowVars, now, bal, pools, nextPoolId, poolPlatformFee,
                          poolCustody, poolAudit>>
      ELSE Revert(call)

\* block.timestamp moves on by d days between transactions, up to limit
WarpTo(d, limit) ==
  /\ now + d <= limit
  /\ now' = now + d
  /\ lastCall' = NoCall
  /\ events' = <<>>
  /\ UNCHANGED <<engine, funds, poolVars>>

Warp(d) == WarpTo(d, MaxPoolTime)

\* a member whose last debit failed and whose wallet is short of a share of
\* its pool receives one share from outside the contract
Refill(a, _poolId) ==
  LET pool == PoolAt(_poolId)
  IN  /\ validPool(_poolId)
      /\ pool.token # NATIVE
      /\ pool.members[a].isActive
      /\ pool.members[a].failedPaymentCount >= 1
      /\ bal[pool.token][a] < MemberShare(pool)
      /\ bal' = [bal EXCEPT ![pool.token][a] = @ + MemberShare(pool)]
      /\ lastCall' = NoCall
      /\ events' = <<>>
      /\ UNCHANGED <<engine, custody, audit, now, poolVars>>

\* ------------------------------------------------------------ inputs
PoolIds == 1..MaxPools
PoolCreators == {owner}
\* dave's wallet holds three shares of the pools below, erin's one
Members == {"dave", "erin"}
\* bob, whose wallet holds no share, asks to join once a pool is full
Latecomers == {"bob"}
Keepers == {"alice"}
StatusCallers == {owner, "alice"}
PoolFeeInputs == {500, 501}
PoolRecipientInputs == {ZERO, "carol"}
TimeSteps == {THIRTY_DAYS}

\* <<serviceName, monthlyAmount, token, maxMembers>>: one well-formed pool per
\* token (401 over 2 members is a share of 200 and a remainder) and one input
\* per require of createPool
PoolConfigs ==
  {<<"svc", 401, t, 2>> : t \in Tokens}
    \cup {<<"", 401, NATIVE, 2>>, <<"svc", 0, NATIVE, 2>>, <<"svc", 401, NATIVE, 1>>,
          <<"svc", 401, NATIVE, 21>>}

\* msg.value: nothing, or the member share of the pool addressed
PoolValues(_poolId) ==
  IF _poolId \in 1..Len(pools) THEN {0, MemberShare(pools[_poolId])} ELSE {0}

PoolRefusers(_poolId) ==
  IF PoolAt(_poolId).token = NATIVE
  THEN SUBSET (MayRefuse \cap {PoolAt(_poolId).owner, poolFeeRecipient})
  ELSE {{}}

IsFull(_poolId) == PoolAt(_poolId).currentMembers >= PoolAt(_poolId).maxMembers

\* a member tops up by hand only below MaxPaidShares shares paid
MayTopUp(sender, _poolId) ==
  /\ _poolId \in 1..Len(pools)
  /\ pools[_poolId].members[sender].totalPaid < MaxPaidShares * MemberShare(pools[_poolId])

PoolNext ==
  \/ \E sender \in PoolCreators, c \in PoolConfigs :
        nextPoolId <= MaxPools /\ CreatePool(sender, c[1], c[2], c[3], c[4])
  \/ \E sender \in Members \cup PoolCreators, id \in PoolIds :
        \E value \in PoolValues(id), refused \in PoolRefusers(id) :
           JoinPool(sender, id, value, refused)
  \/ \E sender \in Latecomers, id \in PoolIds :
        \E refused \in PoolRefusers(id) : IsFull(id) /\ JoinPool(sender, id, 0, refused)
  \/ \E sender \in Members, id \in PoolIds : LeavePool(sender, id)
  \/ \E sender \in Keepers, id \in PoolIds :
        \E refused \in PoolRefusers(id) : CollectPayments(sender, id, refused)
  \/ \E sender \in Members, id \in PoolIds :
        \E value \in PoolValues(id), refused \in PoolRefusers(id) :
           (MayTopUp(sender, id) \/ ~validPool(id)) /\ ManualPayment(sender, id, value, refused)
  \/ \E d \in TimeSteps : nextPoolId > 1 /\ Warp(d)

PoolSpec == Init /\ [][PoolNext]_vars

\* ---------------------------------------- two pools in one currency
\* Both pools take the reverting token with a share of 150 (301 over 2
\* members): dave's wallet holds four shares, erin's two. The first pool is
\* owner's, any further one alice's. No time passes.
SharedPoolIds == 1..MaxSharedPools
SharedCreator == IF nextPoolId = 1 THEN owner ELSE "alice"
SharedConfigs == {<<"svc", 301, REVERTING, 2>>}

TwoPoolNext ==
  \/ \E c \in SharedConfigs :
        nextPoolId <= MaxSharedPools /\ CreatePool(SharedCreator, c[1], c[2], c[3], c[4])
  \/ \E sender \in Members, id \in SharedPoolIds : JoinPool(sender, id, 0, {})
  \/ \E sender \in Members, id \in SharedPoolIds : LeavePool(sender, id)
  \/ \E sender \in Members, id \in SharedPoolIds :
        MayTopUp(sender, id) /\ ManualPayment(sender, id, 0, {})

TwoPoolSpec == Init /\ [][TwoPoolNext]_vars

\* ------------------------------------------- the four-member example
\* One pool of monthlyAmount 400 over maxMembers 4 (a share of 100), in the
\* native coin or the reverting token, and four accounts that can pay a share.
ScenarioMembers == {"alice", "dave", "erin", "frank"}
ScenarioConfigs == {<<"svc", 400, t, 4>> : t \in {NATIVE, REVERTING}}

ScenarioNext ==
  \/ \E c \in ScenarioConfigs :
        nextPoolId <= MaxPools /\ CreatePool(owner, c[1], c[2], c[3], c[4])
  \/ \E sender \in ScenarioMembers, id \in PoolIds :
        \E value \in PoolValues(id) : JoinPool(sender, id, value, {})

ScenarioSpec == Init /\ [][ScenarioNext]_vars

\* ------------------------------------------ both engines, every call
\* The two contracts share no storage, so their calls are explored one
\* engine at a time: escrow calls while the pool contract is as deployed,
\* pool calls while the escrow contract is as deployed. The pool side takes
\* the native coin, every pool operation including the owner's status and
\* fee calls, and one step of thirty days. While neither contract has a
\* record yet, the owner's settings of both are explored together, with a
\* second fee recipient.
PoolsUntouched ==
  nextPoolId = 1 /\ poolPlatformFee = INITIAL_POOL_FEE /\ poolFeeRecipient = "carol"

EscrowsUntouched ==
  /\ nextEscrowId = 1 /\ platformFee = INITIAL_PLATFORM_FEE /\ feeRecipient = "carol"
  /\ approvedMediators = {}
  /\ now = 0 \/ nextPoolId > 1

GuardConfigs == {c \in PoolConfigs : c[3] = NATIVE}

Fresh == nextEscrowId = 1 /\ nextPoolId = 1 /\ now = 0
SetupRecipients == IF Fresh THEN {"bob"} ELSE {}

GuardNext ==
  \/ \E sender \in Creators, f \in FreelancerInputs, m \in {owner} \cup MediatorInputs,
        a \in {0} \cup Amounts, t \in Tokens, d \in {now, now + 1} :
        PoolsUntouched /\ feeRecipient = "carol" /\ CreateEscrow(sender, f, m, a, t, d)
  \/ \E sender \in Accounts, id \in EscrowIds :
        \E v \in FundValues(sender, id) : PoolsUntouched /\ FundEscrow(sender, id, v)
  \/ \E sender \in Accounts, id \in EscrowIds :
        \E h \in SubmitHashes(sender, id) : PoolsUntouched /\ SubmitWork(sender, id, h)
  \/ \E sender \in Accounts, id \in EscrowIds :
        \E r \in Refusers(id, {EscrowAt(id).freelancer, feeRecipient}) :
           PoolsUntouched /\ ApproveWork(sender, id, r)
  \/ \E sender \in Accounts, id \in EscrowIds : PoolsUntouched /\ RaiseDispute(sender, id)
  \/ \E sender \in Accounts, id \in EscrowIds :
        \E ab \in ResolveInputs(id),
           r \in Refusers(id, {EscrowAt(id).freelancer, EscrowAt(id).client}) :
           PoolsUntouched /\ ResolveDispute(sender, id, ab[1], ab[2], r)
  \/ \E sender \in Accounts, id \in EscrowIds : PoolsUntouched /\ CancelEscrow(sender, id)
  \/ \E sender \in AdminCallers, m \in MediatorInputs :
        (PoolsUntouched \/ Fresh) /\ AddMediator(sender, m)
  \/ \E sender \in AdminCallers, m \in MediatorInputs :
        (PoolsUntouched \/ Fresh) /\ RemoveMediator(sender, m)
  \/ \E sender \in AdminCallers, f \in FeeInputs :
        (PoolsUntouched \/ Fresh) /\ SetPlatformFee(sender, f)
  \/ \E sender \in AdminCallers, r \in RecipientInputs \cup SetupRecipients :
        (PoolsUntouched \/ Fresh) /\ SetFeeRecipient(sender, r)
  \/ PoolsUntouched /\ Tick
  \/ \E sender \in PoolCreators, c \in GuardConfigs :
        /\ EscrowsUntouched /\ poolFeeRecipient = "carol" /\ nextPoolId <= MaxPools
        /\ CreatePool(sender, c[1], c[2], c[3], c[4])
  \/ \E sender \in Members \cup PoolCreators, id \in PoolIds :
        \E value \in PoolValues(id), refused \in PoolRefusers(id) :
           EscrowsUntouched /\ JoinPool(sender, id, value, refused)
  \/ \E sender \in Latecomers, id \in PoolIds :
        \E refused \in PoolRefusers(id) :
           EscrowsUntouched /\ IsFull(id) /\ JoinPool(sender, id, 0, refused)
  \/ \E sender \in Members, id \in PoolIds : EscrowsUntouched /\ LeavePool(sender, id)
  \/ \E sender \in Keepers, id \in PoolIds :
        \E refused \in PoolRefusers(id) :
           EscrowsUntouched /\ CollectPayments(sender, id, refused)
  \/ \E sender \in Members, id \in PoolIds :
        \E value \in PoolValues(id), refused \in PoolRefusers(id) :
           /\ EscrowsUntouched
           /\ MayTopUp(sender, id) \/ ~validPool(id)
           /\ ManualPayment(sender, id, value, refused)
  \/ \E sender \in StatusCallers, id \in PoolIds : EscrowsUntouched /\ PausePool(sender, id)
  \/ \E sender \in StatusCallers, id \in PoolIds : EscrowsUntouched /\ ResumePool(sender, id)
  \/ \E sender \in StatusCallers, id \in PoolIds : EscrowsUntouched /\ CancelPool(sender, id)
  \/ \E sender \in StatusCallers, f \in PoolFeeInputs :
        (EscrowsUntouched \/ Fresh) /\ PoolSetPlatformFee(sender, f)
  \/ \E sender \in StatusCallers, r \in PoolRecipientInputs \cup SetupRecipients :
        (EscrowsUntouched \/ Fresh) /\ PoolSetFeeRecipient(sender, r)
  \/ \E d \in TimeSteps : EscrowsUntouched /\ nextPoolId > 1 /\ now = 0 /\ Warp(d)

GuardSpec == Init /\ [][GuardNext]_vars

\* ------------------------------------------- three ticks of one pool
\* One pool in the reverting token. The keeper runs every tick when it falls
\* due (time moves on only while no tick is due), and a member whose debit
\* failed may have its wallet refilled before the next tick.
RetryConfigs == {<<"svc", 401, REVERTING, 2>>}
NoTickDue == \A p \in 1..Len(pools) : ~collectPayments_require(pools[p])

RetryNext ==
  \/ \E c \in RetryConfigs :
        nextPoolId <= MaxPools /\ CreatePool(owner, c[1], c[2], c[3], c[4])
  \/ \E sender \in Members, id \in PoolIds : JoinPool(sender, id, 0, {})
  \/ \E sender \in Keepers, id \in PoolIds : CollectPayments(sender, id, {})
  \/ \E sender \in Members, id \in PoolIds :
        MayTopUp(sender, id) /\ ManualPayment(sender, id, 0, {})
  \/ \E a \in Members, id \in PoolIds : Refill(a, id)
  \/ \E d \in TimeSteps : nextPoolId > 1 /\ NoTickDue /\ WarpTo(d, MaxRetryTime)

RetrySpec == Init /\ [][RetryNext]_vars

\* ------------------------------------------- a pool owner that calls back
\* One native-coin pool whose owner is a contract that may call pausePool or
\* cancelPool when it is paid.
OwnerHooks == {"pausePool", "cancelPool"}

ReentryNext ==
  \/ \E c \in GuardConfigs :
        nextPoolId <= MaxPools /\ CreatePool(owner, c[1], c[2], c[3], c[4])
  \/ \E sender \in Members \cup PoolCreators, id \in PoolIds :
        \E value \in PoolValues(id) : JoinPool(sender, id, value, {})
  \/ \E sender \in Members, id \in PoolIds :
        \E value \in PoolValues(id), hook \in OwnerHooks :
           JoinPoolReentered(sender, id, value, hook)
  \/ \E sender \in Members, id \in PoolIds : LeavePool(sender, id)
  \/ \E sender \in StatusCallers, id \in PoolIds : ResumePool(sender, id)

ReentrySpec == Init /\ [][ReentryNext]_vars

\* ------------------------------------------- deliveries of one escrow
\* One escrow between alice and bob, every operation on it by every account,
\* and a freelancer who offers two different delivery references.
DeliveryHashes == Hashes \cup {"QmB"}
DeliveryTokens == {NATIVE, REVERTING}

DeliveryNext ==
  \/ \E t \in DeliveryTokens, d \in {now, now + 1} :
        CreateEscrow("alice", "bob", owner, 30, t, d)
  \/ \E sender \in Accounts, id \in EscrowIds :
        \E v \in FundValues(sender, id) : FundEscrow(sender, id, v)
  \/ \E sender \in Accounts, id \in EscrowIds, h \in DeliveryHashes :
        SubmitWork(sender, id, h)
  \/ \E sender \in Accounts, id \in EscrowIds : ApproveWork(sender, id, {})
  \/ \E sender \in Accounts, id \in EscrowIds : RaiseDispute(sender, id)
  \/ \E sender \in Accounts, id \in EscrowIds :
        \E ab \in ResolveInputs(id) : ResolveDispute(sender, id, ab[1], ab[2], {})
  \/ \E sender \in Accounts, id \in EscrowIds : CancelEscrow(sender, id)
  \/ Tick

DeliverySpec == Init /\ [][DeliveryNext]_vars

\* ------------------------------------------- parties that may mediate
\* One native-coin escrow whose creator may name as mediator the
\* administrator or any account the administrator has approved, the parties
\* of the escrow included.
PartyMediators == {"alice", "bob"}
PartyCreators == {owner, "alice"}

PartyNext ==
  \/ \E m \in PartyMediators : AddMediator(owner, m)
  \/ \E sender \in PartyCreators, m \in {owner} \cup PartyMediators :
        CreateEscrow(sender, "bob", m, 30, NATIVE, now + 1)
  \/ \E sender \in Accounts, id \in EscrowIds :
        \E v \in FundValues(sender, id) : FundEscrow(sender, id, v)
  \/ \E sender \in Accounts, id \in EscrowIds :
        \E h \in SubmitHashes(sender, id) : SubmitWork(sender, id, h)
  \/ \E sender \in Accounts, id \in EscrowIds : RaiseDispute(sender, id)
  \/ \E sender \in Accounts, id \in EscrowIds :
        \E ab \in ResolveInputs(id) : ResolveDispute(sender, id, ab[1], ab[2], {})

PartySpec == Init /\ [][PartyNext]_vars

\* =========================================================== properties
Terminal == {"Completed", "Cancelled", "Refunded"}
Ids == 1..Len(escrows)
\* the call a step makes, and the escrow it addresses as the call finds it
Op == lastCall'.op
Sender == lastCall'.sender
Ok == lastCall'.ok
Id == lastCall'.id
Target == EscrowAt(lastCall'.id)
Rejected == ~lastCall'.ok /\ UNCHANGED <<engine, funds>>
\* the sum of the amounts of a set of escrows
RECURSIVE SumAmounts(_)
SumAmounts(S) ==
  IF S = {} THEN 0
  ELSE LET e == CHOOSE x \in S : TRUE IN escrows[e].amount + SumAmounts(S \ {e})
CreditsOf(e) == audit[e].toClient + audit[e].toFreelancer + audit[e].toFee

\* C1: every Completed escrow has paid out, to client, freelancer and fee
\* recipient together, exactly its amount, in exactly one settlement.
C1_Conservation ==
  \A e \in Ids :
     escrows[e].status = "Completed" =>
        /\ CreditsOf(e) = escrows[e].amount
        /\ audit[e].releases = 1

\* C2: resolveDispute by the assigned mediator on a Disputed escrow is rejected
\* without effect when the two amounts do not sum to the escrow amount; when
\* they do (and no recipient refuses the payment) it succeeds, the client
\* receives exactly clientAmount, the freelancer exactly freelancerAmount, the
\* fee recipient nothing, and the status becomes Completed.
C2_DisputeConservation ==
  [][(Op = "resolveDispute" /\ Sender = Target.mediator /\ Target.status = "Disputed") =>
        IF lastCall'.clientAmount + lastCall'.freelancerAmount # Target.amount
        THEN Rejected
        ELSE lastCall'.refused = {} =>
               /\ Ok
               /\ escrows'[Id].status = "Completed"
               /\ audit'[Id].toClient = audit[Id].toClient + lastCall'.clientAmount
               /\ audit'[Id].toFreelancer =
                     audit[Id].toFreelancer + lastCall'.freelancerAmount
               /\ audit'[Id].toFee = audit[Id].toFee]_vars

\* C3: approveWork succeeds at most once per escrow (a call that finds any
\* status but WorkSubmitted, in particular a second approveWork, is rejected
\* and moves nothing), and resolveDispute on an escrow that is not Disputed is
\* rejected and moves nothing.
C3_NoDoubleRelease ==
  [][/\ (Op = "approveWork" /\ Target.status # "WorkSubmitted") => Rejected
     /\ (Op = "approveWork" /\ Ok) =>
           /\ audit[Id].releases = 0
           /\ escrows'[Id].status = "Completed"
     /\ (Op = "resolveDispute" /\ Target.status # "Disputed") => Rejected]_vars

\* a second approveWork by the client, after a successful one, was rejected
C3_Witness ==
  /\ lastCall.op = "approveWork" /\ ~lastCall.ok
  /\ lastCall.sender = EscrowAt(lastCall.id).client
  /\ EscrowAt(lastCall.id).status = "Completed"
  /\ EscrowAt(lastCall.id).clientApproved
  /\ audit[lastCall.id].toFreelancer > 0

\* C4: once an escrow is Completed, Cancelled or Refunded, no step changes its
\* status, client, freelancer, mediator, amount, currency, deadline or
\* deliveryReference, and no funds move on its behalf.
C4_TerminalFrozen ==
  [][\A e \in Ids :
        escrows[e].status \in Terminal =>
           /\ escrows'[e].status = escrows[e].status
           /\ escrows'[e].client = escrows[e].client
           /\ escrows'[e].freelancer = escrows[e].freelancer
           /\ escrows'[e].mediator = escrows[e].mediator
           /\ escrows'[e].amount = escrows[e].amount
           /\ escrows'[e].token = escrows[e].token
           /\ escrows'[e].deadline = escrows[e].deadline
           /\ escrows'[e].deliveryHash = escrows[e].deliveryHash
           /\ audit'[e] = audit[e]]_vars

\* the client of a cancelled escrow tried to fund it and was rejected
C4_Witness ==
  /\ lastCall.op = "fundEscrow" /\ ~lastCall.ok
  /\ lastCall.sender = EscrowAt(lastCall.id).client
  /\ lastCall.value = (IF EscrowAt(lastCall.id).token = NATIVE
                       THEN EscrowAt(lastCall.id).amount ELSE 0)
  /\ EscrowAt(lastCall.id).status = "Cancelled"

\* C5: an escrow starts Created and its status changes only along
\* Created->Funded (fundEscrow), Funded->WorkSubmitted (submitWork),
\* WorkSubmitted->Completed (approveWork), Funded->Disputed and
\* WorkSubmitted->Disputed (raiseDispute), Disputed->Completed
\* (resolveDispute) and Created->Cancelled (cancelEscrow).
AllowedTransitions ==
  {<<"Created", "Funded", "fundEscrow">>,
   <<"Funded", "WorkSubmitted", "submitWork">>,
   <<"WorkSubmitted", "Completed", "approveWork">>,
   <<"Funded", "Disputed", "raiseDispute">>,
   <<"WorkSubmitted", "Disputed", "raiseDispute">>,
   <<"Disputed", "Completed", "resolveDispute">>,
   <<"Created", "Cancelled", "cancelEscrow">>}

C5_Transitions ==
  [][/\ Len(escrows') >= Len(escrows)
     /\ \A e \in 1..Len(escrows') :
           IF e \in Ids
           THEN escrows'[e].status # escrows[e].status =>
                   /\ <<escrows[e].status, escrows'[e].status, Op>> \in AllowedTransitions
                   /\ Id = e /\ Ok
           ELSE escrows'[e].status = "Created"]_vars

\* an escrow went WorkSubmitted -> Disputed -> Completed
C5_Witness ==
  /\ lastCall.op = "resolveDispute" /\ lastCall.ok
  /\ EscrowAt(lastCall.id).status = "Completed"
  /\ EscrowAt(lastCall.id).freelancerSubmitted

\* C6: fundEscrow, approveWork and cancelEscrow by anyone but the client,
\* submitWork by anyone but the freelancer, raiseDispute by anyone but client
\* or freelancer, and resolveDispute by anyone but the assigned mediator are
\* rejected and change nothing.
C6_Roles ==
  [][/\ (Op \in {"fundEscrow", "approveWork", "cancelEscrow"} /\ Sender # Target.client)
           => Rejected
     /\ (Op = "submitWork" /\ Sender # Target.freelancer) => Rejected
     /\ (Op = "raiseDispute" /\ Sender \notin {Target.client, Target.freelancer})
           => Rejected
     /\ (Op = "resolveDispute" /\ Sender # Target.mediator) => Rejected]_vars

\* the freelancer tried to approve their own submitted work and was rejected
C6_Witness ==
  /\ lastCall.op = "approveWork" /\ ~lastCall.ok
  /\ EscrowAt(lastCall.id).status = "WorkSubmitted"
  /\ lastCall.sender = EscrowAt(lastCall.id).freelancer
  /\ lastCall.sender # EscrowAt(lastCall.id).client

\* C7: fundEscrow by the client on a Created escrow either takes exactly the
\* amount from the client into custody and sets Funded, or fails leaving the
\* status and every balance unchanged.
C7_FundAtomic ==
  [][(/\ Op = "fundEscrow" /\ Id \in Ids
      /\ Sender = Target.client /\ Target.status = "Created") =>
        \/ /\ Ok
           /\ escrows'[Id].status = "Funded"
           /\ bal'[Target.token][Sender] = bal[Target.token][Sender] - Target.amount
           /\ custody'[Target.token] = custody[Target.token] + Target.amount
           /\ audit'[Id].debited = Target.amount
        \/ Rejected]_vars

\* C8: submitWork after the deadline is rejected; at or before the deadline
\* (now = deadline included) it is accepted when the other guards hold;
\* fundEscrow and approveWork succeed whatever the time.
C8_Deadline ==
  [][/\ (Op = "submitWork" /\ now > Target.deadline) => Rejected
     /\ (/\ Op = "submitWork" /\ Id \in Ids /\ Sender = Target.freelancer
         /\ Target.status = "Funded" /\ lastCall'.hash # ""
         /\ now <= Target.deadline)
           => Ok /\ escrows'[Id].status = "WorkSubmitted"
     /\ (/\ Op = "fundEscrow" /\ Id \in Ids /\ Sender = Target.client
         /\ Target.status = "Created"
         /\ IF Target.token = NATIVE THEN lastCall'.value = Target.amount
            ELSE /\ lastCall'.value = 0
                 /\ (Target.token = REVERTING =>
                        bal[REVERTING][Sender] >= Target.amount))
           => Ok /\ escrows'[Id].status = "Funded"
     /\ (/\ Op = "approveWork" /\ Id \in Ids /\ Sender = Target.client
         /\ Target.status = "WorkSubmitted" /\ lastCall'.refused = {}
         /\ (Target.token = REVERTING => custody[REVERTING] >= Target.amount))
           => Ok /\ escrows'[Id].status = "Completed"]_vars

\* an escrow was funded after its deadline and the freelancer's submission,
\* right in everything but the time, was then rejected
C8_Witness ==
  /\ lastCall.op = "submitWork" /\ ~lastCall.ok /\ lastCall.hash # ""
  /\ lastCall.sender = EscrowAt(lastCall.id).freelancer
  /\ EscrowAt(lastCall.id).status = "Funded"
  /\ EscrowAt(lastCall.id).lastUpdated > EscrowAt(lastCall.id).deadline
  /\ now > EscrowAt(lastCall.id).deadline

\* C9: cancelEscrow succeeds only on a Created escrow and is rejected in
\* every other status; an escrow that is Cancelled never had a debit or a
\* credit made on its behalf.
C9_CancelOnlyCreated ==
  [][/\ (Op = "cancelEscrow" /\ Target.status # "Created") => Rejected
     /\ (Op = "cancelEscrow" /\ Ok) => escrows'[Id].status = "Cancelled"
     /\ \A e \in 1..Len(escrows') :
           escrows'[e].status = "Cancelled" => audit'[e] = EmptyAudit]_vars

\* the client tried to cancel an escrow already funded and was rejected
C9_Witness ==
  /\ lastCall.op = "cancelEscrow" /\ ~lastCall.ok
  /\ lastCall.sender = EscrowAt(lastCall.id).client
  /\ EscrowAt(lastCall.id).status = "Funded"
  /\ audit[lastCall.id].debited = EscrowAt(lastCall.id).amount

\* C10: a successful approveWork credits the fee recipient
\* floor(amount * feeBps / 10000) and the freelancer the rest, at the feeBps
\* in force when it is called.
C10_FeeSplit ==
  [][(Op = "approveWork" /\ Ok) =>
        LET fee == (Target.amount * platformFee) \div 10000
        IN  /\ audit'[Id].toFee = audit[Id].toFee + fee
            /\ audit'[Id].toFreelancer = audit[Id].toFreelancer + (Target.amount - fee)]_vars

\* C11: the freelancer of an escrow is credited only by a successful
\* approveWork of that escrow sent by its client or a successful
\* resolveDispute of that escrow sent by its assigned mediator: the escrow's
\* audit trail records a credit to its freelancer only in such a step, and a
\* wallet grows only in such a step and only if it belongs to a party the
\* call pays (the freelancer and the fee recipient, or the freelancer and
\* the client). fundEscrow, submitWork, raiseDispute, cancelEscrow, the admin
\* operations and every rejected call credit nobody.
C11_FreelancerCredit ==
  [][/\ \A e \in Ids :
          audit'[e].toFreelancer > audit[e].toFreelancer
          => /\ Ok
             /\ Id = e
             /\ \/ Op = "approveWork" /\ Sender = escrows[e].client
                \/ Op = "resolveDispute" /\ Sender = escrows[e].mediator
     /\ \A a \in Holders :
          (\E t \in Tokens : bal'[t][a] > bal[t][a])
          => /\ Ok
             /\ Id \in Ids
             /\ \/ /\ Op = "approveWork" /\ Sender = escrows[Id].client
                   /\ a \in {escrows[Id].freelancer, feeRecipient}
                \/ /\ Op = "resolveDispute" /\ Sender = escrows[Id].mediator
                   /\ a \in {escrows[Id].freelancer, escrows[Id].client}]_vars

C11_Witness ==
  /\ lastCall.op = "resolveDispute"
  /\ lastCall.ok
  /\ lastCall.id \in Ids
  /\ lastCall.sender = escrows[lastCall.id].mediator
  /\ audit[lastCall.id].toFreelancer > 0
  /\ bal[escrows[lastCall.id].token][escrows[lastCall.id].freelancer]
       > Wallet(escrows[lastCall.id].freelancer)

\* ------------------------------------------------- pool property helpers
PoolIdsNow == 1..Len(pools)
ActiveMembers(pool) == {a \in Holders : pool.members[a].isActive}
TargetPool == PoolAt(lastCall'.id)
Emitted(evs, name) == {i \in 1..Len(evs) : evs[i][1] = name}

\* C13: in every reachable state every pool's currentMembers is the number of
\* accounts whose member record is active, and is at most maxMembers.
C13_MemberCount ==
  \A p \in PoolIdsNow :
     /\ pools[p].currentMembers = Cardinality(ActiveMembers(pools[p]))
     /\ pools[p].currentMembers <= pools[p].maxMembers

\* a tick has just evicted one member of a pool and left the other in it
C13_Witness ==
  /\ lastCall.op = "collectPayments" /\ lastCall.ok
  /\ Emitted(events, "MemberRemoved") # {}
  /\ PoolAt(lastCall.id).currentMembers = 1
  /\ \E a \in Holders : /\ ~PoolAt(lastCall.id).members[a].isActive
                         /\ PoolAt(lastCall.id).members[a].failedPaymentCount
                               >= MAX_FAILED_PAYMENTS

\* the tick addressed by the call just made passes every guard of collectPayments
TickDue ==
  /\ lastCall'.op = "collectPayments"
  /\ validPool(lastCall'.id)
  /\ poolActive(lastCall'.id)
  /\ collectPayments_require(TargetPool)

\* the debit of one share from a member in a tick moves nothing
DebitFails(pool, a) ==
  pool.token = NATIVE \/ bal[pool.token][a] < MemberShare(pool)

\* members of the pool whose debit failed in the previous tick and fails again
FailingTwice(pool) ==
  {a \in ActiveMembers(pool) :
      /\ pool.members[a].failedPaymentCount >= MAX_FAILED_PAYMENTS - 1
      /\ DebitFails(pool, a)}

\* C14: a member whose debit failed in the previous tick and fails again in
\* this one is removed by this tick, wherever it stands in memberList: the tick
\* goes through, the member is inactive and off the list, currentMembers drops
\* by one per such member, and MemberRemoved carries the reason "Too many
\* failed payments", which is not the reason of a voluntary leave.
C14_EvictedOnSecondFailure ==
  [][TickDue =>
       \A a \in FailingTwice(TargetPool) :
          /\ lastCall'.ok
          /\ ~pools'[lastCall'.id].members[a].isActive
          /\ \A i \in 1..Len(pools'[lastCall'.id].memberList) :
                 pools'[lastCall'.id].memberList[i] # a
          /\ pools'[lastCall'.id].currentMembers
                = TargetPool.currentMembers - Cardinality(FailingTwice(TargetPool))
          /\ \E i \in 1..Len(events') :
                 events'[i] = <<"MemberRemoved", lastCall'.id, a, TOO_MANY_FAILED>>
          /\ TOO_MANY_FAILED # LEFT_VOLUNTARILY]_vars

\* C15: a collectPayments call on an Active pool whose payment is due always
\* goes through, whichever members fail their debit or reach eviction.
C15_TickNeverAborts ==
  [][TickDue => lastCall'.ok]_vars

\* C16 as stated: every successful collectPayments moves nextPaymentDue to its
\* previous value plus exactly 30 days.
C16_DuePlusThirtyDays ==
  [][(TickDue /\ lastCall'.ok) =>
        pools'[lastCall'.id].nextPaymentDue = TargetPool.nextPaymentDue + THIRTY_DAYS]_vars

\* C16 amended: every successful collectPayments sets nextPaymentDue to the
\* time of the call plus exactly 30 days, whether or not members failed or
\* were evicted; that is never earlier than the previous due time plus 30 days
\* and is later whenever the tick was invoked late.
C16_DueThirtyDaysFromNow ==
  [][(TickDue /\ lastCall'.ok) =>
        /\ pools'[lastCall'.id].nextPaymentDue = now + THIRTY_DAYS
        /\ pools'[lastCall'.id].nextPaymentDue >= TargetPool.nextPaymentDue + THIRTY_DAYS
        /\ (now > TargetPool.nextPaymentDue =>
               pools'[lastCall'.id].nextPaymentDue > TargetPool.nextPaymentDue + THIRTY_DAYS)]_vars

\* a tick invoked 30 days late has gone through although a member, who has
\* not paid since joining at time 0, failed its debit in it
C16_Witness ==
  /\ lastCall.op = "collectPayments" /\ lastCall.ok
  /\ now = 2 * THIRTY_DAYS
  /\ PoolAt(lastCall.id).nextPaymentDue = now + THIRTY_DAYS
  /\ Emitted(events, "PaymentFailed") # {}
  /\ \E a \in ActiveMembers(PoolAt(lastCall.id)) :
        /\ PoolAt(lastCall.id).members[a].failedPaymentCount = 1
        /\ PoolAt(lastCall.id).members[a].lastPayment = 0

\* funds held by the contract on behalf of one pool: what its members were
\* debited less what its owner and the fee recipient were credited
HeldFor(a) == a.collected - a.toOwner - a.toFee

\* C18: a call that pays a pool out leaves nothing held on behalf of that pool,
\* and takes out of the contract's balance exactly ownerPayout + fee.
C18_PayoutLeavesNothing ==
  [][\A i \in Emitted(events', "PayoutCompleted") :
        LET p == events'[i][2]
            t == pools'[p].token
        IN  /\ HeldFor(poolAudit'[p]) = 0
            /\ poolAudit'[p].toOwner - poolAudit[p].toOwner = events'[i][3]
            /\ poolAudit'[p].toFee - poolAudit[p].toFee = events'[i][4]]_vars

\* C17: whatever the sequence of calls, a pool's owner and the fee recipient
\* have together been credited on behalf of the pool at most what the pool's
\* members have been debited, so no contribution is paid out twice.
C17_NoOverPayout ==
  \A p \in PoolIdsNow :
     poolAudit[p].toOwner + poolAudit[p].toFee <= poolAudit[p].collected

\* C20: after the debit of a successful joinPool or manualPayment the eager
\* payout fires exactly when the funds held on behalf of that pool reach
\* floor(monthlyAmount / maxMembers) * currentMembers, and then pays out
\* exactly that amount; what the contract holds for other pools does not count.
C20_EagerPayoutOwnFunds ==
  [][(lastCall'.op \in {"joinPool", "manualPayment"} /\ lastCall'.ok) =>
       LET p == lastCall'.id
           expected == MemberShare(pools'[p]) * pools'[p].currentMembers
           held == HeldFor(poolAudit[p])
                     + (poolAudit'[p].collected - poolAudit[p].collected)
           paidOut == (poolAudit'[p].toOwner - poolAudit[p].toOwner)
                        + (poolAudit'[p].toFee - poolAudit[p].toFee)
       IN  /\ (Emitted(events', "PayoutCompleted") # {}) <=> (held >= expected)
           /\ (Emitted(events', "PayoutCompleted") # {}) => paidOut = expected
           /\ (Emitted(events', "PayoutCompleted") = {}) => paidOut = 0]_vars

\* C19: in a pool of maxMembers 4 and monthlyAmount 400 that starts with
\* nothing in custody, every successful joinPool debits the joiner exactly
\* 100; the first three joins pay nothing out; the fourth pays out 400, the
\* owner receiving 400 - fee and the fee recipient fee.
C19_PayoutAtFourthJoin ==
  [][(/\ lastCall'.op = "joinPool" /\ lastCall'.ok
      /\ TargetPool.maxMembers = 4 /\ TargetPool.monthlyAmount = 400) =>
       LET p == lastCall'.id
           t == TargetPool.token
           fee == PoolFee(400, poolPlatformFee)
           toOwner == bal'[t][TargetPool.owner] - bal[t][TargetPool.owner]
           toFee == bal'[t][poolFeeRecipient] - bal[t][poolFeeRecipient]
       IN  /\ bal[t][lastCall'.sender] - bal'[t][lastCall'.sender] = 100
           /\ pools'[p].currentMembers < 4 =>
                 /\ Emitted(events', "PayoutCompleted") = {}
                 /\ toOwner = 0 /\ toFee = 0
           /\ pools'[p].currentMembers = 4 =>
                 /\ Emitted(events', "PayoutCompleted") # {}
                 /\ toOwner = 400 - fee /\ toFee = fee]_vars

C21_OwnerPaidFromOwnPool ==
  [][\A p \in PoolIdsNow :
        poolAudit'[p].toOwner - poolAudit[p].toOwner
          <= HeldFor(poolAudit[p]) + (poolAudit'[p].collected - poolAudit[p].collected)]_vars

\* C22: a joinPool call goes through only on an Active pool with room, from a
\* caller who is neither an active member nor the owner; it then debits the
\* caller exactly floor(monthlyAmount / maxMembers), leaves the caller an
\* active member with failedPaymentCount 0 and joinedAt = lastPayment = now,
\* and raises currentMembers by exactly one; a caller whose wallet cannot
\* cover the share is not added.
C22_JoinGuardsAndEffect ==
  [][lastCall'.op = "joinPool" =>
       LET p == lastCall'.id
           a == lastCall'.sender
           t == TargetPool.token
       IN  /\ lastCall'.ok =>
                /\ validPool(p) /\ TargetPool.status = "Active"
                /\ TargetPool.currentMembers < TargetPool.maxMembers
                /\ ~TargetPool.members[a].isActive
                /\ a # TargetPool.owner
                /\ bal[t][a] - bal'[t][a] = MemberShare(TargetPool)
                /\ pools'[p].members[a].isActive
                /\ pools'[p].members[a].failedPaymentCount = 0
                /\ pools'[p].members[a].joinedAt = now
                /\ pools'[p].members[a].lastPayment = now
                /\ pools'[p].currentMembers = TargetPool.currentMembers + 1
           /\ (validPool(p) /\ ~TargetPool.members[a].isActive
                 /\ bal[t][a] < MemberShare(TargetPool)) =>
                ~pools'[p].members[a].isActive]_vars

\* C23: a pool's status moves only between Active and Paused or from either
\* to Cancelled, only in a call sent by the pool's owner, and a Cancelled pool
\* keeps that status whatever is called on it.
C23_CancelledIsTerminal ==
  [][\A p \in PoolIdsNow :
        /\ pools[p].status = "Cancelled" => pools'[p].status = "Cancelled"
        /\ pools'[p].status # pools[p].status =>
             /\ lastCall'.ok /\ lastCall'.id = p
             /\ lastCall'.sender = pools[p].owner
             /\ lastCall'.op \in {"pausePool", "resumePool", "cancelPool"}]_vars

\* accounts on a pool's memberList
Listed(pool) == {pool.memberList[i] : i \in 1..Len(pool.memberList)}

\* C24: pausePool, resumePool, cancelPool and leavePool, accepted or not,
\* leave every wallet and both contracts' balances as they were; an accepted
\* leavePool comes from an active member, and takes exactly that member off
\* the pool: its record becomes inactive with totalPaid untouched, every other
\* member record and list entry stays, and currentMembers drops by one.
C24_NoFundsMoved ==
  [][lastCall'.op \in {"pausePool", "resumePool", "cancelPool", "leavePool"} =>
       LET p == lastCall'.id
           a == lastCall'.sender
       IN  /\ bal' = bal /\ poolCustody' = poolCustody /\ custody' = custody
           /\ poolAudit' = poolAudit
           /\ (lastCall'.op = "leavePool" /\ lastCall'.ok) =>
                /\ TargetPool.members[a].isActive
                /\ pools'[p].members =
                     [TargetPool.members EXCEPT ![a].isActive = FALSE]
                /\ Listed(pools'[p]) = Listed(TargetPool) \ {a}
                /\ Len(pools'[p].memberList) = Len(TargetPool.memberList) - 1
                /\ pools'[p].currentMembers = TargetPool.currentMembers - 1]_vars

\* the first of two members has left a pool it paid a share into, and its
\* wallet is still short of that share
C24_Witness ==
  /\ lastCall.op = "leavePool" /\ lastCall.ok
  /\ PoolAt(lastCall.id).currentMembers = 1
  /\ PoolAt(lastCall.id).members[lastCall.sender].totalPaid > 0
  /\ bal[PoolAt(lastCall.id).token][lastCall.sender] < Wallet(lastCall.sender)

\* C25: a manualPayment call goes through only from an active member of an
\* Active pool; it then debits the caller exactly floor(monthlyAmount /
\* maxMembers), adds that share to the member's totalPaid, sets lastPayment to
\* now and failedPaymentCount to 0, and leaves nextPaymentDue, the status and
\* the membership of the pool as they were.
C25_ManualPaymentEffect ==
  [][(lastCall'.op = "manualPayment" /\ lastCall'.ok) =>
       LET p == lastCall'.id
           a == lastCall'.sender
           t == TargetPool.token
           share == MemberShare(TargetPool)
       IN  /\ validPool(p) /\ TargetPool.status = "Active"
           /\ TargetPool.members[a].isActive
           /\ bal[t][a] - bal'[t][a] = share
           /\ pools'[p] =
                [TargetPool EXCEPT !.members[a].totalPaid = @ + share,
                                   !.members[a].lastPayment = now,
                                   !.members[a].failedPaymentCount = 0]]_vars

\* the member was debited in the call just made, a tick or a manual payment
DebitedNow(p, a) ==
  /\ lastCall'.ok /\ lastCall'.id = p
  /\ lastCall'.op \in {"collectPayments", "manualPayment"}
  /\ bal'[pools[p].token][a] < bal[pools[p].token][a]

\* C26: only consecutive failures evict. Every active member has
\* failedPaymentCount < 2; a debit that goes through, in a tick or in a
\* manualPayment, leaves the member's count at 0; the count grows only by one
\* and only in a tick in which the member's debit fails; and a tick evicts
\* only a member whose count was already 1, that is whose previous attempt
\* failed too. So a member that fails, pays, and fails again stays in.
C26_ConsecutiveFailuresEvict ==
  [][\A p \in PoolIdsNow : \A a \in Holders :
        LET m == pools[p].members[a]
            n == pools'[p].members[a]
        IN  /\ n.isActive => n.failedPaymentCount < MAX_FAILED_PAYMENTS
            /\ DebitedNow(p, a) => n.failedPaymentCount = 0
            /\ n.failedPaymentCount > m.failedPaymentCount =>
                 /\ lastCall'.op = "collectPayments" /\ lastCall'.ok /\ lastCall'.id = p
                 /\ m.isActive /\ DebitFails(pools[p], a)
                 /\ n.failedPaymentCount = m.failedPaymentCount + 1
            /\ (m.isActive /\ ~n.isActive /\ lastCall'.op = "collectPayments") =>
                 /\ m.failedPaymentCount = MAX_FAILED_PAYMENTS - 1
                 /\ n.failedPaymentCount = MAX_FAILED_PAYMENTS
                 /\ DebitFails(pools[p], a)]_vars

\* the tick at day 90 has just failed to debit a member that is still in the
\* pool: it paid its second and only other share in the tick at day 60, after
\* the tick at day 30 had failed
C26_Witness ==
  /\ lastCall.op = "collectPayments" /\ lastCall.ok
  /\ now = 3 * THIRTY_DAYS
  /\ \E a \in ActiveMembers(PoolAt(lastCall.id)) :
        /\ PoolAt(lastCall.id).members[a].failedPaymentCount = 1
        /\ PoolAt(lastCall.id).members[a].lastPayment = 2 * THIRTY_DAYS
        /\ PoolAt(lastCall.id).members[a].totalPaid = 2 * MemberShare(PoolAt(lastCall.id))
        /\ \E i \in 1..Len(events) : events[i] = <<"PaymentFailed", lastCall.id, a>>

\* the administrative calls of the two contracts
EscrowAdminOps == {"addMediator", "removeMediator", "setPlatformFee", "setFeeRecipient"}
PoolAdminOps == {"pool.setPlatformFee", "pool.setFeeRecipient"}

\* C27: the escrow fee never exceeds 1000 and the pool fee never exceeds 500;
\* each contract's fee, fee recipient and (for the escrow contract) approved
\* mediators change only in a successful administrative call of that contract
\* sent by its owner, which leaves the other contract's settings alone; the
\* same calls from any other account are rejected.
C27_AdminSettings ==
  [][/\ platformFee' <= MAX_PLATFORM_FEE /\ poolPlatformFee' <= MAX_POOL_FEE
     /\ platformFee' # platformFee => lastCall'.op = "setPlatformFee"
     /\ feeRecipient' # feeRecipient => lastCall'.op = "setFeeRecipient"
     /\ approvedMediators' # approvedMediators =>
          lastCall'.op \in {"addMediator", "removeMediator"}
     /\ poolPlatformFee' # poolPlatformFee => lastCall'.op = "pool.setPlatformFee"
     /\ poolFeeRecipient' # poolFeeRecipient => lastCall'.op = "pool.setFeeRecipient"
     /\ <<platformFee, feeRecipient, approvedMediators>>'
          # <<platformFee, feeRecipient, approvedMediators>> =>
          /\ lastCall'.ok /\ lastCall'.sender = owner
          /\ UNCHANGED <<poolPlatformFee, poolFeeRecipient>>
     /\ <<poolPlatformFee, poolFeeRecipient>>' # <<poolPlatformFee, poolFeeRecipient>> =>
          /\ lastCall'.ok /\ lastCall'.sender = owner
          /\ UNCHANGED <<platformFee, feeRecipient, approvedMediators>>
     /\ (lastCall'.op \in EscrowAdminOps \cup PoolAdminOps /\ lastCall'.sender # owner) =>
          ~lastCall'.ok]_vars

\* the owner has just moved the pool contract's fee recipient, after raising
\* the pool fee to its cap and changing the escrow contract's fee
C27_Witness ==
  /\ lastCall.op = "pool.setFeeRecipient" /\ lastCall.ok
  /\ poolFeeRecipient # "carol" /\ feeRecipient = "carol"
  /\ poolPlatformFee = MAX_POOL_FEE
  /\ platformFee # INITIAL_PLATFORM_FEE

\* C28: a fee change is never retroactive. A setPlatformFee call of either
\* contract, accepted or not, leaves every wallet, both custody balances,
\* every escrow and pool record and every amount already credited as they
\* were; what was credited for a Completed escrow or in a past payout never
\* changes afterwards; and every settlement splits its amount at the rate in
\* force when it is made, which is the amount the fee recipient is sent.
C28_FeeNotRetroactive ==
  [][/\ lastCall'.op \in {"setPlatformFee", "pool.setPlatformFee"} =>
          /\ bal' = bal /\ custody' = custody /\ poolCustody' = poolCustody
          /\ escrows' = escrows /\ pools' = pools
          /\ audit' = audit /\ poolAudit' = poolAudit
     /\ \A e \in Ids : escrows[e].status = "Completed" => audit'[e] = audit[e]
     /\ \A p \in PoolIdsNow :
          /\ poolAudit'[p].toOwner >= poolAudit[p].toOwner
          /\ poolAudit'[p].toFee >= poolAudit[p].toFee
     /\ \A i \in Emitted(events', "EscrowCompleted") :
          LET e == events'[i][2]
              fee == (escrows[e].amount * platformFee) \div BPS_DENOMINATOR
          IN  /\ events'[i][4] = fee
              /\ events'[i][3] = escrows[e].amount - fee
              /\ escrows[e].token # FALSE_RETURNING =>
                   audit'[e].toFee - audit[e].toFee = fee
     /\ \A i \in Emitted(events', "PayoutCompleted") :
          LET p == events'[i][2]
              amount == events'[i][3] + events'[i][4]
              fee == (amount * poolPlatformFee) \div BPS_DENOMINATOR
          IN  /\ events'[i][4] = fee
              /\ pools[p].token # FALSE_RETURNING =>
                   poolAudit'[p].toFee - poolAudit[p].toFee = fee]_vars

\* a pool has been paid out twice, once at the fee it was created under and
\* once, just now, at the fee the owner has set since
C28_Witness ==
  /\ lastCall.ok /\ Emitted(events, "PayoutCompleted") # {}
  /\ poolPlatformFee = MAX_POOL_FEE
  /\ poolAudit[lastCall.id].payouts = 2
  /\ poolAudit[lastCall.id].toFee =
       (MemberShare(PoolAt(lastCall.id)) * INITIAL_POOL_FEE) \div BPS_DENOMINATOR
         + (MemberShare(PoolAt(lastCall.id)) * MAX_POOL_FEE) \div BPS_DENOMINATOR

\* C29: while joinPool, leavePool, manualPayment or collectPayments runs on a
\* pool, no other state-changing call on that pool takes effect, whoever is
\* called back by its transfers: the call leaves the pool's status as it
\* found it and carries no PoolStatusChanged among its events.
C29_NoCallInsideACall ==
  [][(/\ lastCall'.op \in {"joinPool", "leavePool", "manualPayment", "collectPayments"}
      /\ lastCall'.ok) =>
        /\ pools'[lastCall'.id].status = TargetPool.status
        /\ Emitted(events', "PoolStatusChanged") = {}]_vars

\* C30: every call that goes through, administrative calls included, emits
\* at least one event, and one of its events names the record the call was
\* made on; a rejected call emits none.
C30_EveryCallAudited ==
  [][lastCall'.op # "none" =>
       /\ lastCall'.ok => Len(events') > 0
       /\ (lastCall'.ok /\ lastCall'.op \notin EscrowAdminOps \cup PoolAdminOps) =>
             \E i \in 1..Len(events') : events'[i][2] = lastCall'.id
       /\ ~lastCall'.ok => events' = <<>>]_vars

\* C31: every escrow record has a positive amount, a non-null freelancer, a
\* deadline later than its creation time and, when it was created, a mediator
\* that was approved or was the administrator; a rejected createEscrow
\* allocates no id, stores no record and moves no funds.
C31_ValidRecords ==
  [][ /\ \A e \in 1..Len(escrows') :
           /\ escrows'[e].amount > 0
           /\ escrows'[e].freelancer # ZERO
           /\ escrows'[e].deadline > escrows'[e].createdAt
      /\ (Op = "createEscrow" /\ Ok) =>
           /\ Len(escrows') = Len(escrows) + 1
           /\ nextEscrowId' = nextEscrowId + 1
           /\ escrows'[Id].createdAt = now
           /\ escrows'[Id].status = "Created"
           /\ (escrows'[Id].mediator \in approvedMediators
                 \/ escrows'[Id].mediator = owner)
           /\ UNCHANGED <<bal, custody>>
      /\ (Op = "createEscrow" /\ ~Ok) =>
           UNCHANGED <<escrows, nextEscrowId, bal, custody, audit>>
      /\ nextEscrowId' # nextEscrowId => (Op = "createEscrow" /\ Ok)
    ]_vars

\* an escrow created with an approved mediator other than the administrator
C31_Witness ==
  /\ lastCall.op = "createEscrow" /\ lastCall.ok
  /\ Len(escrows) = 1
  /\ escrows[1].mediator = "carol"
  /\ escrows[1].deadline = escrows[1].createdAt + 1

\* C32: the delivery reference of an escrow is empty when the escrow is
\* created, is written only by a successful submitWork that finds it empty
\* and stores the non-empty reference of the call, and is changed by no
\* other step: a submitWork on an escrow that already has one is rejected.
C32_DeliveryWriteOnce ==
  [][ /\ \A e \in Ids :
           escrows'[e].deliveryHash # escrows[e].deliveryHash =>
             /\ Op = "submitWork" /\ Ok /\ Id = e
             /\ escrows[e].deliveryHash = ""
      /\ (Op = "createEscrow" /\ Ok) => escrows'[Id].deliveryHash = ""
      /\ (Op = "submitWork" /\ Ok) =>
           /\ Target.deliveryHash = ""
           /\ lastCall'.hash # ""
           /\ escrows'[Id].deliveryHash = lastCall'.hash
      /\ (Op = "submitWork" /\ Id \in Ids /\ Target.deliveryHash # "") => Rejected
      /\ \A e \in Ids :
           (escrows[e].deliveryHash = "") <=>
              (escrows[e].status \in {"Created", "Funded", "Cancelled"}
                 \/ (escrows[e].status \in {"Disputed", "Completed"}
                       /\ ~escrows[e].freelancerSubmitted))
    ]_vars

\* the freelancer's second delivery, with another reference, was rejected
C32_Witness ==
  /\ lastCall.op = "submitWork" /\ ~lastCall.ok
  /\ lastCall.id \in Ids
  /\ lastCall.sender = escrows[lastCall.id].freelancer
  /\ escrows[lastCall.id].deliveryHash = "QmA"
  /\ lastCall.hash = "QmB"
  /\ now <= escrows[lastCall.id].deadline

\* C33: for each currency, the funds the escrow engine holds equal the sum
\* of the amounts of the escrows in that currency whose status is Funded,
\* WorkSubmitted or Disputed.
C33_CustodyMatchesBooks ==
  \A t \in Tokens :
     custody[t] = SumAmounts({e \in Ids : /\ escrows[e].token = t
                                          /\ escrows[e].status \in
                                               {"Funded", "WorkSubmitted", "Disputed"}})

\* C34: a settlement or a payout whose credit fails, fails as a whole. An
\* approveWork or resolveDispute on a WorkSubmitted or Disputed escrow
\* either credits the parties the full amount out of custody or is rejected
\* and leaves status, wallets and custody as they were; a joinPool,
\* manualPayment or collectPayments either delivers the payout it announces
\* or is rejected and leaves debits, members and nextPaymentDue as they were.
C34_FailedCreditFailsCall ==
  [][ /\ (/\ Op \in {"approveWork", "resolveDispute"} /\ Id \in Ids
          /\ Target.status \in {"WorkSubmitted", "Disputed"}) =>
            \/ /\ Ok
               /\ (audit'[Id].toClient + audit'[Id].toFreelancer + audit'[Id].toFee)
                     - CreditsOf(Id) = Target.amount
               /\ custody'[Target.token] = custody[Target.token] - Target.amount
            \/ Rejected
      /\ (Op \in {"joinPool", "manualPayment", "collectPayments"}
            /\ Id \in PoolIdsNow) =>
            \/ /\ Ok
               /\ \A i \in Emitted(events', "PayoutCompleted") :
                     /\ events'[i][2] = Id
                     /\ poolAudit'[Id].toOwner - poolAudit[Id].toOwner = events'[i][3]
                     /\ poolAudit'[Id].toFee - poolAudit[Id].toFee = events'[i][4]
            \/ ~Ok /\ UNCHANGED <<pools, bal, poolCustody, poolAudit>>
    ]_vars

\* the events of the call that report an attempt to debit member a
AttemptsOn(a) ==
  {i \in 1..Len(events') : /\ events'[i][1] \in {"PaymentCollected", "PaymentFailed"}
                           /\ events'[i][3] = a}

\* C35: a successful collectPayments attempts every member that was active
\* when it started exactly once and nobody else, debits a member at most one
\* share, and with k members debited pays out k * floor(monthlyAmount /
\* maxMembers): floor(total * feeBps / 10000) to the fee recipient and the
\* rest to the owner; with k = 0 it credits nobody.
C35_TickAttemptsOnceAndPaysCollected ==
  [][(Op = "collectPayments" /\ Ok /\ Id \in PoolIdsNow) =>
       LET pool == TargetPool
           share == pool.monthlyAmount \div pool.maxMembers
           k == Cardinality({a \in ActiveMembers(pool) :
                               bal'[pool.token][a] < bal[pool.token][a]
                               \/ (a \in {pool.owner, poolFeeRecipient}
                                     /\ \E i \in AttemptsOn(a) :
                                           events'[i][1] = "PaymentCollected")})
           total == k * share
           fee == (total * poolPlatformFee) \div BPS_DENOMINATOR
       IN  /\ \A a \in Holders :
                Cardinality(AttemptsOn(a)) = IF a \in ActiveMembers(pool) THEN 1 ELSE 0
           /\ \A a \in Holders \ {pool.owner, poolFeeRecipient} :
                bal'[pool.token][a] \in
                   {bal[pool.token][a], bal[pool.token][a] - share}
           /\ Cardinality(Emitted(events', "PaymentCollected")) = k
           /\ poolAudit'[Id].collected - poolAudit[Id].collected = total
           /\ poolAudit'[Id].toFee - poolAudit[Id].toFee = fee
           /\ poolAudit'[Id].toOwner - poolAudit[Id].toOwner = total - fee
     ]_vars

\* C36: in every reachable state the memberList of every pool holds exactly
\* the accounts whose member record is active, each of them once.
C36_ListIsActiveMembers ==
  \A p \in PoolIdsNow :
     /\ Listed(pools[p]) = ActiveMembers(pools[p])
     /\ Len(pools[p].memberList) = Cardinality(ActiveMembers(pools[p]))

\* dave is the only account that ever joined the pool, which has collected
\* two first payments: dave left and joined again, and is listed once
C36_Witness ==
  /\ PoolIdsNow = {1}
  /\ pools[1].token = REVERTING
  /\ pools[1].memberList = <<"dave">>
  /\ pools[1].members["dave"].isActive
  /\ pools[1].members["dave"].totalPaid = pools[1].monthlyAmount \div pools[1].maxMembers
  /\ \A a \in Holders \ {"dave"} : pools[1].members[a].totalPaid = 0
  /\ poolAudit[1].collected = 2 * pools[1].members["dave"].totalPaid
  /\ lastCall.op = "joinPool" /\ lastCall.ok /\ lastCall.sender = "dave"

\* C37: on a pool that is Paused or Cancelled, joinPool, collectPayments and
\* manualPayment are rejected and change nothing, and no step debits or
\* credits anyone on behalf of that pool; leavePool by an active member is
\* accepted whatever the pool's status.
C37_InactivePoolFrozen ==
  [][ /\ \A p \in PoolIdsNow :
           pools[p].status \in {"Paused", "Cancelled"} =>
              /\ poolAudit'[p] = poolAudit[p]
              /\ (Id = p /\ Op \in {"joinPool", "collectPayments", "manualPayment"}) =>
                   /\ ~Ok
                   /\ UNCHANGED <<pools, bal, poolCustody, poolAudit>>
              /\ Id = p /\ Op # "leavePool" =>
                   pools'[p].members = pools[p].members
      /\ (/\ Op = "leavePool" /\ Id \in PoolIdsNow
          /\ TargetPool.members[Sender].isActive) =>
            /\ Ok
            /\ ~pools'[Id].members[Sender].isActive
            /\ pools'[Id].status = TargetPool.status
    ]_vars

\* an active member has just left a cancelled pool
C37_Witness ==
  /\ lastCall.op = "leavePool" /\ lastCall.ok
  /\ lastCall.id \in PoolIdsNow
  /\ pools[lastCall.id].status = "Cancelled"
  /\ ~pools[lastCall.id].members[lastCall.sender].isActive
  /\ pools[lastCall.id].members[lastCall.sender].totalPaid > 0

\* C38: in a pool of the native coin every due collectPayments goes through
\* without debiting anyone: each active member gets one PaymentFailed and
\* one more failedPaymentCount (and is evicted on reaching the threshold),
\* nothing is collected or paid out, and the count of a member that stays
\* active goes down only in a manualPayment of that member.
C38_NativeTickOnlyFails ==
  [][ /\ (/\ Op = "collectPayments" /\ Id \in PoolIdsNow
          /\ TargetPool.token = NATIVE
          /\ TargetPool.status = "Active"
          /\ now >= TargetPool.nextPaymentDue) =>
            /\ Ok
            /\ bal' = bal /\ poolCustody' = poolCustody
            /\ poolAudit'[Id] = poolAudit[Id]
            /\ Emitted(events', "PaymentCollected") = {}
            /\ Emitted(events', "PayoutCompleted") = {}
            /\ \A a \in ActiveMembers(TargetPool) :
                  /\ \E i \in Emitted(events', "PaymentFailed") : events'[i][3] = a
                  /\ pools'[Id].members[a].failedPaymentCount =
                        TargetPool.members[a].failedPaymentCount + 1
                  /\ pools'[Id].members[a].isActive <=>
                        TargetPool.members[a].failedPaymentCount + 1 < MAX_FAILED_PAYMENTS
      /\ \A p \in PoolIdsNow, a \in Holders :
           (/\ pools[p].token = NATIVE
            /\ pools[p].members[a].isActive /\ pools'[p].members[a].isActive
            /\ pools'[p].members[a].failedPaymentCount
                 < pools[p].members[a].failedPaymentCount) =>
              (Op = "manualPayment" /\ Ok /\ Id = p /\ Sender = a)
    ]_vars

\* C39: no escrow is ever Refunded, and no live escrow is stuck: a Created
\* escrow can be cancelled by its client (and funded when the client holds
\* the amount), a Funded one can be disputed by either party whatever the
\* time, a WorkSubmitted one can be approved or disputed by the client, and
\* a Disputed one can be resolved by its mediator; funds leave the engine's
\* custody only in a successful approveWork or resolveDispute.
C39_NoDeadEnd ==
  /\ [](\A e \in Ids :
          LET escrow == escrows[e] IN
          /\ escrow.status # "Refunded"
          /\ escrow.status = "Created" =>
               /\ ENABLED (CancelEscrow(escrow.client, e) /\ lastCall'.ok)
               /\ bal[escrow.token][escrow.client] >= escrow.amount =>
                    \E v \in {0, escrow.amount} :
                       ENABLED (FundEscrow(escrow.client, e, v) /\ lastCall'.ok)
          /\ escrow.status = "Funded" =>
               /\ ENABLED (RaiseDispute(escrow.client, e) /\ lastCall'.ok)
               /\ ENABLED (RaiseDispute(escrow.freelancer, e) /\ lastCall'.ok)
          /\ escrow.status = "WorkSubmitted" =>
               /\ ENABLED (ApproveWork(escrow.client, e, {}) /\ lastCall'.ok)
               /\ ENABLED (RaiseDispute(escrow.client, e) /\ lastCall'.ok)
               /\ ENABLED (RaiseDispute(escrow.freelancer, e) /\ lastCall'.ok)
          /\ escrow.status = "Disputed" =>
               ENABLED (ResolveDispute(escrow.mediator, e, 0, escrow.amount, {})
                          /\ lastCall'.ok))
  /\ [][\A t \in Tokens :
          custody'[t] < custody[t] =>
             (Op \in {"approveWork", "resolveDispute"} /\ Ok)]_vars

\* a Funded escrow without a delivery was disputed after its deadline
C39_Witness ==
  /\ lastCall.op = "raiseDispute" /\ lastCall.ok
  /\ lastCall.id \in Ids
  /\ escrows[lastCall.id].status = "Disputed"
  /\ escrows[lastCall.id].deliveryHash = ""
  /\ now > escrows[lastCall.id].deadline
  /\ custody[escrows[lastCall.id].token] = escrows[lastCall.id].amount

\* C40: the mediator of every escrow is neither its client nor its
\* freelancer, and a resolveDispute that goes through is never sent by a
\* party of the escrow it settles.
C40_MediatorIndependent ==
  [][ /\ \A e \in 1..Len(escrows') :
           escrows'[e].mediator \notin {escrows'[e].client, escrows'[e].freelancer}
      /\ (Op = "resolveDispute" /\ Ok) =>
           Sender \notin {Target.client, Target.freelancer}
    ]_vars

============================================================================
